---- MODULE Spec2Model ----
(***************************************************************************)
(* A model of the codex-autopilot run orchestration: the modular runner    *)
(* (src/src/runner.ts) with its workflow parser, scheduling helper,        *)
(* manifest and artifact persistence.                                      *)
(*                                                                         *)
(* Strings that the code formats or rewrites (exec ids, labels, artifact   *)
(* directory names, step ids) are sequences of one-character strings, so   *)
(* that padStart, slugification and concatenation are computed and not     *)
(* assumed.  Optional values are sequences of length 0 or 1.               *)
(*                                                                         *)
(* Environment: the adapter may return (status succeeded or failed) or     *)
(* throw on every call; its output text is drawn from a small catalogue.   *)
(* Filesystem writes (mkdir, writeFile) are taken to succeed.              *)
(***************************************************************************)
EXTENDS Integers, Sequences, FiniteSets, TLC

\* ------------------------------------------------------------------ bounds

\* options.maxIterations ranges over 0..MaxIter
MaxIter == 3
\* options.concurrency ranges over -1..MaxConc
MaxConc == 2
\* runs of at most RichIters iterations draw workflows from the rich catalogue
RichIters == 1

\* ------------------------------------------------------------ small helpers

Null == <<>>
Some(x) == <<x>>
IsSome(o) == o # <<>>
Get(o) == o[1]

Max(a, b) == IF a >= b THEN a ELSE b
Min(a, b) == IF a <= b THEN a ELSE b

Range(s) == {s[i] : i \in DOMAIN s}

\* Array.prototype.slice(0, n) for n >= 0
Take(s, n) == IF n <= 0 THEN <<>> ELSE SubSeq(s, 1, Min(n, Len(s)))

NoDuplicates(s) == \A i, j \in DOMAIN s : s[i] = s[j] => i = j

\* ----------------------------------------------------------- text handling

DigitChars == <<"0", "1", "2", "3", "4", "5", "6", "7", "8", "9">>
LowerChars == {"a", "b", "c", "e", "g", "h", "i", "k", "l", "m", "n", "o",
               "p", "r", "s", "t", "w", "x", "z"}
SafeChars == LowerChars \cup Range(DigitChars) \cup {"-", "_"}

\* String(n) for n >= 0
RECURSIVE Digits(_)
Digits(n) ==
  IF n < 10 THEN <<DigitChars[n + 1]>>
  ELSE Digits(n \div 10) \o <<DigitChars[(n % 10) + 1]>>

\* String.prototype.padStart(width, fill)
RECURSIVE PadStart(_, _, _)
PadStart(s, width, fill) ==
  IF Len(s) >= width THEN s ELSE PadStart(<<fill>> \o s, width, fill)

\* String.prototype.toLowerCase on the characters the model uses
LowerChar(c) ==
  CASE c = "A" -> "a"
    [] c = "B" -> "b"
    [] c = "C" -> "c"
    [] OTHER -> c

ToLowerCase(s) == [i \in DOMAIN s |-> LowerChar(s[i])]

\* the characters of s at the given positions, in order
KeepPositions(s, positions) ==
  LET kept == SelectSeq([i \in DOMAIN s |-> i], LAMBDA i : i \in positions)
  IN  [k \in DOMAIN kept |-> s[kept[k]]]

\* .replace(/[^a-z0-9-_]+/g, "-"): every maximal run of unsafe characters
\* becomes one hyphen
ReplaceUnsafeRuns(s) ==
  KeepPositions([i \in DOMAIN s |-> IF s[i] \in SafeChars THEN s[i] ELSE "-"],
                {i \in DOMAIN s : s[i] \in SafeChars \/ i = 1 \/ s[i - 1] \in SafeChars})

\* .replace(/-+/g, "-")
CollapseHyphens(s) ==
  KeepPositions(s, {i \in DOMAIN s : s[i] # "-" \/ i = 1 \/ s[i - 1] # "-"})

\* .replace(/^-|-$/g, ""): one leading and one trailing hyphen are removed
TrimHyphens(s) ==
  LET a == IF s # <<>> /\ Head(s) = "-" THEN Tail(s) ELSE s
  IN  IF a # <<>> /\ a[Len(a)] = "-" THEN SubSeq(a, 1, Len(a) - 1) ELSE a

\* the safeLabel of writeExecArtifacts
SafeLabel(label) ==
  LET t == TrimHyphens(CollapseHyphens(ReplaceUnsafeRuns(ToLowerCase(label))))
  IN  IF t = <<>> THEN <<"e", "x", "e", "c">> ELSE t

\* `exec-${String(index).padStart(3, "0")}`
ExecIdOf(index) == <<"e", "x", "e", "c", "-">> \o PadStart(Digits(index), 3, "0")


StepLabel(stepId) == <<"s", "t", "e", "p", ":">> \o stepId
WorkflowGenLabel(iter) ==
  <<"w", "o", "r", "k", "f", "l", "o", "w", "-", "g", "e", "n", ":",
    "i", "t", "e", "r", "a", "t", "i", "o", "n", "-">> \o Digits(iter)
CompletionLabel(iter) ==
  <<"c", "o", "m", "p", "l", "e", "t", "i", "o", "n", "-", "c", "h", "e", "c", "k", ":",
    "i", "t", "e", "r", "a", "t", "i", "o", "n", "-">> \o Digits(iter)

\* ------------------------------------------------------- workflow parsing

\* String.prototype.trim on character sequences
RECURSIVE TrimStart(_)
TrimStart(s) == IF s # <<>> /\ Head(s) = " " THEN TrimStart(Tail(s)) ELSE s
RECURSIVE TrimEnd(_)
TrimEnd(s) ==
  IF s # <<>> /\ s[Len(s)] = " " THEN TrimEnd(SubSeq(s, 1, Len(s) - 1)) ELSE s
Trim(s) == TrimEnd(TrimStart(s))

\* safeJsonParse: null when the text holds no JSON value, else the value
SafeJsonParse(text) == IF text.kind = "garbage" THEN Null ELSE Some(text.value)

Ok(w) == [ok |-> TRUE, workflow |-> Some(w), error |-> ""]
\* variant: a parse failure that loses its message
ErrWithoutMessage(msg) == [ok |-> FALSE, workflow |-> Null, error |-> ""]
Err(msg) == [ok |-> FALSE, workflow |-> Null, error |-> msg]

\* the id normalizeStep gives the step at 0-based position index
StepIdOf(raw, index) ==
  IF Trim(raw.id) # <<>> THEN Trim(raw.id)
  ELSE <<"s", "t", "e", "p", "-">> \o Digits(index + 1)

\* the message normalizeStep throws for the step, "" when it accepts it
StepError(raw, index) ==
  IF raw.type # "agent.run" THEN "Step has unsupported type"
  ELSE IF Trim(raw.goal) = <<>> THEN "Step is missing goal"
  ELSE ""

NormalizeStep(raw, index) ==
  [id |-> StepIdOf(raw, index),
   goal |-> raw.goal,
   dependsOn |-> SelectSeq([i \in DOMAIN raw.dependsOn |-> Trim(raw.dependsOn[i])],
                           LAMBDA d : d # <<>>)]

NormalizeWorkflow(value) ==
  IF value.version # 1 THEN Err("Workflow.version must be 1")
  ELSE IF Trim(value.id) = <<>> THEN Err("Workflow.id must be a non-empty string")
  ELSE IF ~value.steps.isArray THEN Err("Workflow.steps must be an array")
  ELSE LET items == value.steps.items
           bad == {i \in DOMAIN items : StepError(items[i], i - 1) # ""}
       IN  IF bad # {}
           THEN Err(StepError(items[CHOOSE i \in bad : \A j \in bad : i <= j],
                              (CHOOSE i \in bad : \A j \in bad : i <= j) - 1))
           ELSE Ok([id |-> Trim(value.id),
                    concurrency |-> IF IsSome(value.concurrency)
                                    THEN Some(Max(1, Get(value.concurrency)))
                                    ELSE Null,
                    steps |-> [i \in DOMAIN items |-> NormalizeStep(items[i], i - 1)]])

ParseWorkflow(text) ==
  IF ~IsSome(SafeJsonParse(text)) THEN Err("Invalid JSON: could not parse workflow")
  ELSE NormalizeWorkflow(Get(SafeJsonParse(text)))

\* --------------------------------------------- what the adapter may answer

RawStep(id, deps) == [id |-> id, type |-> "agent.run", goal |-> <<"g">>, dependsOn |-> deps]
RawWorkflow(id, conc, steps) ==
  [version |-> 1, id |-> id, concurrency |-> conc,
   steps |-> [isArray |-> TRUE, items |-> steps]]
JsonText(value) == [kind |-> "json", value |-> value]
GarbageText == [kind |-> "garbage", value |-> <<>>]

\* one step, as in the integration test
WfOne == RawWorkflow(<<"w", "1">>, Null, <<RawStep(<<"a">>, <<>>)>>)
\* a chain whose last step needs both earlier ones; ids padded with blanks and
\* in mixed case
WfJoin == RawWorkflow(<<"w", "2">>, Null,
                      <<RawStep(<<" ", "a">>, <<>>), RawStep(<<"A">>, <<<<"a", " ">>>>),
                        RawStep(<<"c">>, <<<<"a">>, <<"A">>>>)>>)
\* two independent steps whose labels slugify alike, under the workflow's own
\* concurrency (0 is floored to 1)
WfSerial == RawWorkflow(<<"w", "4">>, Some(0),
                        <<RawStep(<<"a">>, <<>>), RawStep(<<"A">>, <<>>)>>)
\* a dependency on an id that is no step
WfMissingDep == RawWorkflow(<<"w", "5">>, Null,
                            <<RawStep(<<"a">>, <<>>), RawStep(<<"b">>, <<<<"z">>>>)>>)
\* a dependency cycle beside a free step
WfCycle == RawWorkflow(<<"w", "6">>, Null,
                       <<RawStep(<<"a">>, <<<<"b">>>>), RawStep(<<"b">>, <<<<"a">>>>),
                         RawStep(<<"c">>, <<>>)>>)
\* two steps sharing an id, the second with a dependency on an id that is no step
WfDuplicate == RawWorkflow(<<"w", "7">>, Null,
                           <<RawStep(<<"a">>, <<>>), RawStep(<<"a">>, <<<<"z">>>>)>>)
\* no steps at all, and a missing step id
WfEmpty == RawWorkflow(<<"w", "8">>, Null, <<>>)
WfNoId == RawWorkflow(<<"w", "9">>, Null, <<RawStep(<<>>, <<>>)>>)
\* structurally invalid values
WfBadVersion == [WfOne EXCEPT !.version = 2]
WfNoGoal == RawWorkflow(<<"w", "0">>, Null,
                        <<[id |-> <<"a">>, type |-> "agent.run", goal |-> <<" ">>,
                           dependsOn |-> <<>>]>>)
\* what a reviewer proposes as the continuation
WfNext == RawWorkflow(<<"n", "1">>, Null, <<RawStep(<<"n">>, <<>>)>>)

RichWorkflows == {WfOne, WfJoin, WfSerial, WfMissingDep, WfCycle,
                  WfDuplicate, WfEmpty, WfNoId, WfBadVersion, WfNoGoal}
SmallWorkflows == {WfOne, WfBadVersion}

\* the texts the generator may return in a run of maxIterations iterations
GenTexts(maxIterations) ==
  {GarbageText} \cup
  {JsonText(w) : w \in IF maxIterations <= RichIters THEN RichWorkflows ELSE SmallWorkflows}

Answer(done, summary, next) ==
  [done |-> done, summary |-> summary, reason |-> Some("Need more work"),
   nextWorkflow |-> next]

\* the texts the reviewer may return
CheckTexts ==
  {GarbageText,
   JsonText(Answer(TRUE, Some("All complete!"), Null)),
   JsonText(Answer(TRUE, Null, Null)),
   JsonText(Answer(FALSE, Null, Null)),
   JsonText(Answer(FALSE, Null, Some(WfNext))),
   JsonText(Answer(FALSE, Null, Some(WfBadVersion)))}

\* the texts the reviewer may return in a run of maxIterations iterations: in
\* runs of several iterations a not-done answer comes with a workflow or is
\* unparseable
CheckTextsOf(maxIterations) ==
  IF maxIterations <= 1 THEN CheckTexts
  ELSE CheckTexts \ {JsonText(Answer(FALSE, Null, Null))}

\* how a step's adapter call may end
StepOutcomes == {"succeeded", "failed", "throws"}

\* the labels a run can give an exec: one per generation, per completion check
\* and per step id of the catalogue
KnownStepIds ==
  UNION {{StepIdOf(w.steps.items[i], i - 1) : i \in DOMAIN w.steps.items} :
         w \in RichWorkflows \cup {WfNext}}
KnownLabels ==
  {WorkflowGenLabel(i) : i \in 1 .. MaxIter} \cup
  {CompletionLabel(i) : i \in 1 .. MaxIter} \cup
  {StepLabel(id) : id \in KnownStepIds}

\* safeLabel, tabulated over the labels a run can use
SafeLabelOf == [label \in KnownLabels |-> SafeLabel(label)]

\* path.join(runDir, `${execId}-${safeLabel}`), relative to runDir
ExecDirOf(execId, label) == execId \o <<"-">> \o SafeLabelOf[label]

\* ------------------------------------------------------------------ state

VARIABLES
  options,               \* RunOptions: maxIterations, concurrency
  pc,                    \* where run() stands
  iteration,             \* the for-loop counter of run()
  nextWorkflowOverride,  \* optional Workflow
  workflow,              \* optional Workflow: the one this iteration executes
  workflowGenExecId,     \* optional exec id of this iteration's generation
  nextExecIndex,         \* context.nextExecIndex
  manifest,              \* the RunManifest in memory
  manifestFile,          \* manifest.json on disk: the manifest last written
  artifactDirs,          \* the exec directories written, in order
  completed,             \* executeWorkflow: Map stepId -> StepResult
  pending,               \* executeWorkflow: Set of step ids
  running,               \* executeWorkflow: Set of step ids
  wave,                  \* the executeStep calls Promise.all awaits
  thrown,                \* optional message of the exception being propagated
  result,                \* optional RunnerResult: what run() returned
  calls,                 \* history: the adapter calls made
  allocated,             \* history: the ids allocateExecId returned
  answers,               \* history: the completion checks obtained (with the
                         \* text of those that answered done or were unparseable)
  faults                 \* history: where exceptions were raised

vars == <<options, pc, iteration, nextWorkflowOverride, workflow, workflowGenExecId,
          nextExecIndex, manifest, manifestFile, artifactDirs, completed, pending,
          running, wave, thrown, result, calls, allocated, answers, faults>>

\* the dependency resolver (resolveDependencyOrder, detectCycle) applied to a
\* step list
VARIABLES
  rSteps,                \* the step list given to the resolver
  rPc,                   \* "input", then "checked" or "resolved"
  rCycle,                \* optional result of detectCycle
  rResolved              \* optional outcome of resolveDependencyOrder

resolverVars == <<rSteps, rPc, rCycle, rResolved>>

\* the one-file runner's executeWorkflow: its arguments and locals
VARIABLES
  cliWorkflow,           \* the workflow: optional concurrency and the steps
  cliConcurrency,        \* options.concurrency
  cliPc,                 \* "loop", "wave", "returned" or "thrown"
  cliRemaining,          \* the ids of remaining, in insertion order
  cliCompleted,          \* completed
  cliRunning,            \* running
  cliWave,               \* the wave Promise.all awaits: step id, settled, status
  cliResults,            \* results: step id -> status
  cliReturn              \* optional return value: one status per step

cliVars == <<cliWorkflow, cliConcurrency, cliPc, cliRemaining, cliCompleted, cliRunning,
             cliWave, cliResults, cliReturn>>

\* the one-file runner's capture context while codexExec calls are in flight
VARIABLES
  runManifest,           \* captureContext.runManifest: execs and graph
  graphIndex,            \* captureContext.graphIndex
  manifestWrite,         \* the promise chain of writeManifest: one link per call
  capFile,               \* the manifest file on disk
  capProcs,              \* the codexExec calls: parameters and position
  capRounds,             \* how often recordWorkflowDependsOnEdges has run
  capLastCall,           \* history: the manifest as of the last writeManifest call
  capStarted,            \* history: the writes in the order they started
  capLookups,            \* history: the thread ids given to findTranscriptPath
  capEnrichLog           \* history: the calls of enrichGraphFromTranscript

capVars == <<runManifest, graphIndex, manifestWrite, capFile, capProcs, capRounds,
             capLastCall, capStarted, capLookups, capEnrichLog>>

\* parseWorkflow applied to a text as it is and inside surrounding prose
VARIABLES
  pDoc,                  \* the text: a sequence of tokens
  pPrefix,               \* the prose before it
  pSuffix,               \* the prose after it
  pBare,                 \* optional outcome of parseWorkflow(pDoc)
  pWrapped               \* optional outcome of parseWorkflow(prefix + pDoc + suffix)

parserVars == <<pDoc, pPrefix, pSuffix, pBare, pWrapped>>

\* the run viewer's handleRunFile while it answers one request
VARIABLES
  vRunId,                \* the run id of the request
  vRelPath,              \* the path parameter: absolute or not, and its segments
  vPc,                   \* "route", "runDir", "file", "stat" or "done"
  vRunDir,               \* optional normalizedRunDir
  vResolved,             \* optional resolved
  vRealFile,             \* optional realFilePath
  vStatus,               \* the status code written, 0 before
  vStreamed              \* optional path of the file piped into the response

viewerVars == <<vRunId, vRelPath, vPc, vRunDir, vResolved, vRealFile, vStatus, vStreamed>>

\* the one-file runner's run() loop
VARIABLES
  loopMax,               \* options.maxIterations
  loopPc,                \* "loop", "steps", "returned" or "thrown"
  loopIteration,         \* the for-loop counter
  loopOverride,          \* nextWorkflowOverride: optional Workflow
  loopPending,           \* pendingCompletionExecId: optional exec id
  loopGen,               \* workflowGenExecId: optional exec id
  loopWorkflow,          \* optional Workflow: the one this iteration executes
  loopNextExec,          \* captureContext.nextExecIndex
  loopRemaining,         \* executeWorkflow: remaining, in insertion order
  loopCompleted,         \* executeWorkflow: completed
  loopResults,           \* executeWorkflow: results, step id -> StepResult
  loopManifest,          \* captureContext.runManifest
  loopGraph,             \* captureContext.graphIndex
  loopFile,              \* the manifest file on disk
  loopLog                \* history: the iterations whose completion check returned

loopVars == <<loopMax, loopPc, loopIteration, loopOverride, loopPending, loopGen,
              loopWorkflow, loopNextExec, loopRemaining, loopCompleted, loopResults,
              loopManifest, loopGraph, loopFile, loopLog>>

\* the variables run() does not touch
notRun == <<resolverVars, cliVars, capVars, parserVars, viewerVars, loopVars>>
\* the variables the resolver does not touch
notResolver == <<vars, cliVars, capVars, parserVars, viewerVars, loopVars>>
\* the variables the one-file executeWorkflow does not touch
notCli == <<vars, resolverVars, capVars, parserVars, viewerVars, loopVars>>
\* the variables the capture context's operations do not touch
notCap == <<vars, resolverVars, cliVars, parserVars, viewerVars, loopVars>>
\* the variables parseWorkflow does not touch
notParser == <<vars, resolverVars, cliVars, capVars, viewerVars, loopVars>>
\* the variables the one-file run() loop does not touch
notLoop == <<vars, resolverVars, cliVars, capVars, parserVars, viewerVars>>
\* the variables the run viewer does not touch
notViewer == <<vars, resolverVars, cliVars, capVars, parserVars, loopVars>>

EmptyMap == [k \in {} |-> Null]
MapSet(m, k, v) == [x \in DOMAIN m \cup {k} |-> IF x = k THEN v ELSE m[x]]

\* ------------------------------------------------- manifest and artifacts

\* variant: allocateExecId without the increment
AllocateExecIdStale(index) == [id |-> ExecIdOf(index), next |-> index]

\* allocateExecId: the id for the counter's value, and the counter after it
AllocateExecId(index) == [id |-> ExecIdOf(index), next |-> index + 1]

\* n consecutive allocateExecId calls: the ids in call order, and the counter
RECURSIVE AllocateMany(_, _)
AllocateMany(index, n) ==
  IF n = 0 THEN [ids |-> <<>>, next |-> index]
  ELSE LET a == AllocateExecId(index)
           rest == AllocateMany(a.next, n - 1)
       IN  [ids |-> <<a.id>> \o rest.ids, next |-> rest.next]

\* createExecEntry
CreateExecEntry(execId, label, sessionId, status) ==
  [execId |-> execId, label |-> label, sessionId |-> sessionId, status |-> status]

\* the manifest initializeRun builds
InitialManifest ==
  [finishedAt |-> Null, execs |-> <<>>, graph |-> [nodes |-> <<>>, edges |-> <<>>]]

\* `exec:${id}`: the id of a graph node, and the endpoint of a graph edge
ExecNodeIdOf(id) == <<"e", "x", "e", "c", ":">> \o id

\* a session id as it is spliced into a template string: the empty string adds
\* nothing, any other id is one opaque token
SessionChars(sessionId) == IF sessionId = "" THEN <<>> ELSE <<sessionId>>

\* the graph node addExecToManifest builds for an exec entry
GraphNodeOf(entry) ==
  [id |-> ExecNodeIdOf(entry.execId), type |-> "exec", execId |-> entry.execId,
   label |-> entry.label, sessionId |-> entry.sessionId]

\* variant: addExecToManifest that drops failed executions
AddExecUnlessFailed(m, entry) ==
  IF entry.status = "failed" THEN m
  ELSE [m EXCEPT !.execs = Append(@, entry),
                 !.graph.nodes = Append(@, GraphNodeOf(entry))]

\* addExecToManifest
AddExecToManifest(m, entry) ==
  [m EXCEPT !.execs = Append(@, entry),
            !.graph.nodes = Append(@, GraphNodeOf(entry))]

\* addDependsOnEdge: the ids it is given are spliced into `exec:${...}`
AddDependsOnEdge(m, fromId, toId) ==
  [m EXCEPT !.graph.edges = Append(@, [type |-> "dependsOn", from |-> ExecNodeIdOf(fromId),
                                       to |-> ExecNodeIdOf(toId)])]

\* addInvokesEdge
AddInvokesEdge(m, fromId, toId) ==
  [m EXCEPT !.graph.edges = Append(@, [type |-> "invokes", from |-> ExecNodeIdOf(fromId),
                                       to |-> ExecNodeIdOf(toId)])]

\* variant: finalizeRun that stamps nothing
FinalizeRunSkipped(m) == m

\* finalizeRun
FinalizeRun(m) == [m EXCEPT !.finishedAt = Some("now")]

\* --------------------------------------------------------------- scheduling

\* variant: findReadySteps without the dependency test
FindReadyStepsIgnoringDeps(steps, completedIds, runningIds) ==
  SelectSeq(steps, LAMBDA step : step.id \notin completedIds /\ step.id \notin runningIds)

\* findReadySteps
FindReadySteps(steps, completedIds, runningIds) ==
  SelectSeq(steps, LAMBDA step :
    /\ step.id \notin completedIds
    /\ step.id \notin runningIds
    /\ \A i \in DOMAIN step.dependsOn : step.dependsOn[i] \in completedIds)

\* variant: executeWorkflow without its stuck test
IsStuckNever(ready, runningIds) == FALSE

\* the stuck test of executeWorkflow
IsStuck(ready, runningIds) == ready = <<>> /\ runningIds = {}

\* the steps of the workflow still pending, and those of them that are ready
PendingSteps == SelectSeq(Get(workflow).steps, LAMBDA step : step.id \in pending)
ReadySteps == FindReadySteps(PendingSteps, DOMAIN completed, running)

\* variant: the wave without the Math.max(1, ...) floors
WaveOfUnfloored(ready, concurrency, runningIds) ==
  Take(ready, concurrency - Cardinality(runningIds))

\* the wave executeWorkflow launches from the ready steps
WaveOf(ready, concurrency, runningIds) ==
  LET slots == Max(1, concurrency) - Cardinality(runningIds)
  IN  Take(ready, Max(1, slots))

\* variant: executeStep without its try/catch
ExecuteStepRethrows(outcome) == outcome # "throws"

\* the try/catch of executeStep: whether it handles the way the adapter call ended
\* (what it does not handle rejects the promise Promise.all awaits)
ExecuteStepCatches(outcome) == TRUE

\* variant: a StepResult that reports success whatever happened
StepResultLosesFailure(step, outcome) ==
  [stepId |-> step.id, status |-> "succeeded", sessionId |-> "session", error |-> Null]

\* the StepResult executeStep resolves to for the way its adapter call ended
StepResultOf(step, outcome) ==
  IF outcome = "throws"
  THEN [stepId |-> step.id, status |-> "failed", sessionId |-> "",
        error |-> Some("adapter error")]
  ELSE [stepId |-> step.id, status |-> outcome, sessionId |-> "session",
        error |-> Null]

\* the ExecEntry executeStep records for the way its adapter call ended
StepEntryOf(execId, step, outcome) ==
  IF outcome = "throws"
  THEN CreateExecEntry(execId, StepLabel(step.id), "", "failed")
  ELSE CreateExecEntry(execId, StepLabel(step.id), "session", outcome)

\* --------------------------------------------------------------- reviewing

Completed(c) == [ok |-> TRUE, completion |-> Some(c), error |-> ""]
Done(summary) == [done |-> TRUE, summary |-> summary, reason |-> "", nextWorkflow |-> Null]
\* variant: a not-done completion that takes the reviewer's word for done
NotDoneAsDone(reason, next) ==
  [done |-> TRUE, summary |-> "", reason |-> reason, nextWorkflow |-> next]

NotDone(reason, next) ==
  [done |-> FALSE, summary |-> "", reason |-> reason, nextWorkflow |-> next]

\* what checkCompletion makes of the reviewer's output text
ParseCompletion(text) ==
  LET parsed == SafeJsonParse(text) IN
  IF ~IsSome(parsed) THEN Completed(NotDone("Reviewer returned invalid JSON", Null))
  ELSE LET obj == Get(parsed) IN
       IF obj.done = TRUE
       THEN Completed(Done(IF IsSome(obj.summary) THEN Get(obj.summary) ELSE "Done."))
       ELSE IF ~IsSome(obj.nextWorkflow)
       THEN Completed(NotDone(IF IsSome(obj.reason) THEN Get(obj.reason) ELSE "Not done.", Null))
       ELSE LET n == NormalizeWorkflow(Get(obj.nextWorkflow)) IN
            IF n.ok
            THEN Completed(NotDone(IF IsSome(obj.reason) THEN Get(obj.reason) ELSE "Not done.",
                                   n.workflow))
            ELSE [ok |-> FALSE, completion |-> Null, error |-> n.error]

\* ---------------------------------------------------------------- run()

\* variant: a loop test that is off by one
LoopStopsEarly(iter, maxIterations) == iter < maxIterations

\* the test of the for loop of run()
LoopContinues(iter, maxIterations) == iter <= maxIterations

\* variant: run() that never clears the override
KeepOverride(override) == override

\* what run() leaves in nextWorkflowOverride when an iteration takes it
ConsumeOverride(override) == Null

OptionChoices == [maxIterations : 0 .. MaxIter, concurrency : (0 - 1) .. MaxConc]

\* the resolver is not in use
ResolverIdle == rSteps = <<>> /\ rPc = "idle" /\ rCycle = Null /\ rResolved = Null
EmptyGraphIndex ==
  [nodes |-> <<>>, edges |-> <<>>, warnings |-> <<>>, threadToExecNodes |-> EmptyMap,
   transcriptThreads |-> {}, transcriptCallIds |-> EmptyMap,
   \* history: the key and the edge of every recordGraphEdge call
   calls |-> <<>>]
EmptyManifest == [execs |-> <<>>, graph |-> [nodes |-> <<>>, edges |-> <<>>, warnings |-> <<>>]]
CapIdle ==
  /\ runManifest = EmptyManifest
  /\ graphIndex = EmptyGraphIndex
  /\ manifestWrite = <<>>
  /\ capFile = EmptyManifest
  /\ capProcs = <<>>
  /\ capRounds = 0
  /\ capLastCall = Null
  /\ capStarted = <<>>
  /\ capLookups = <<>>
  /\ capEnrichLog = <<>>
\* the manifest the one-file run() starts from
LoopInitialManifest ==
  [finishedAt |-> Null, execs |-> <<>>,
   graph |-> [nodes |-> <<>>, edges |-> <<>>, warnings |-> <<>>]]
LoopIdle ==
  /\ loopMax = 0
  /\ loopPc = "idle"
  /\ loopIteration = 1
  /\ loopOverride = Null
  /\ loopPending = Null
  /\ loopGen = Null
  /\ loopWorkflow = Null
  /\ loopNextExec = 1
  /\ loopRemaining = <<>>
  /\ loopCompleted = {}
  /\ loopResults = EmptyMap
  /\ loopManifest = LoopInitialManifest
  /\ loopGraph = EmptyGraphIndex
  /\ loopFile = LoopInitialManifest
  /\ loopLog = <<>>
ViewerIdle ==
  /\ vRunId = ""
  /\ vRelPath = [absolute |-> FALSE, segments |-> <<>>]
  /\ vPc = "idle"
  /\ vRunDir = Null
  /\ vResolved = Null
  /\ vRealFile = Null
  /\ vStatus = 0
  /\ vStreamed = Null
ParserIdle ==
  /\ pDoc = <<>>
  /\ pPrefix = <<>>
  /\ pSuffix = <<>>
  /\ pBare = Null
  /\ pWrapped = Null
CliIdle ==
  /\ cliWorkflow = [concurrency |-> Null, steps |-> <<>>]
  /\ cliConcurrency = 1
  /\ cliPc = "idle"
  /\ cliRemaining = <<>>
  /\ cliCompleted = {}
  /\ cliRunning = {}
  /\ cliWave = <<>>
  /\ cliResults = EmptyMap
  /\ cliReturn = Null

\* after initializeRun: empty manifest written, counter at 1, loop about to start
Init ==
  /\ options \in OptionChoices
  /\ pc = "loop"
  /\ iteration = 1
  /\ nextWorkflowOverride = Null
  /\ workflow = Null
  /\ workflowGenExecId = Null
  /\ nextExecIndex = 1
  /\ manifest = InitialManifest
  /\ manifestFile = manifest
  /\ artifactDirs = <<>>
  /\ completed = EmptyMap
  /\ pending = {}
  /\ running = {}
  /\ wave = <<>>
  /\ thrown = Null
  /\ result = Null
  /\ calls = <<>>
  /\ allocated = <<>>
  /\ answers = <<>>
  /\ faults = {}
  /\ ResolverIdle
  /\ CliIdle
  /\ CapIdle
  /\ ParserIdle
  /\ ViewerIdle
  /\ LoopIdle

Call(kind, execId, step) ==
  [kind |-> kind, iteration |-> iteration, execId |-> execId, step |-> step,
   completedAt |-> DOMAIN completed]

Returned(status, summary, error) == Some([status |-> status, summary |-> summary, error |-> error])

executeWorkflowLocals == <<completed, pending, running, wave>>
history == <<calls, allocated, answers, faults>>

\* executeWorkflow as entered for workflow w: nothing completed, every id pending
EnterExecuteWorkflow(w) ==
  /\ completed' = EmptyMap
  /\ pending' = {w.steps[i].id : i \in DOMAIN w.steps}
  /\ running' = {}
  /\ wave' = <<>>
  /\ pc' = "sched"

\* the for loop ends: finalizeRun, writeManifest, return max-iterations
IterationsExhausted ==
  /\ pc = "loop"
  /\ UNCHANGED notRun
  /\ ~LoopContinues(iteration, options.maxIterations)
  /\ manifest' = FinalizeRun(manifest)
  /\ manifestFile' = manifest'
  /\ result' = Returned("max-iterations", Null, Null)
  /\ pc' = "returned"
  /\ UNCHANGED <<options, iteration, nextWorkflowOverride, workflow, workflowGenExecId,
                 nextExecIndex, artifactDirs, executeWorkflowLocals, thrown, history>>

\* an iteration that takes the reviewer's workflow and enters executeWorkflow
UseOverride ==
  /\ pc = "loop"
  /\ UNCHANGED notRun
  /\ LoopContinues(iteration, options.maxIterations)
  /\ IsSome(nextWorkflowOverride)
  /\ workflow' = nextWorkflowOverride
  /\ nextWorkflowOverride' = ConsumeOverride(nextWorkflowOverride)
  /\ workflowGenExecId' = Null
  /\ EnterExecuteWorkflow(Get(nextWorkflowOverride))
  /\ UNCHANGED <<options, iteration, nextExecIndex, manifest, manifestFile, artifactDirs,
                 thrown, result, history>>

\* an iteration that calls generateWorkflow, up to its adapter call
BeginGenerate ==
  /\ pc = "loop"
  /\ UNCHANGED notRun
  /\ LoopContinues(iteration, options.maxIterations)
  /\ ~IsSome(nextWorkflowOverride)
  /\ LET a == AllocateExecId(nextExecIndex) IN
       /\ nextExecIndex' = a.next
       /\ allocated' = Append(allocated, a.id)
       /\ workflowGenExecId' = Some(a.id)
       /\ calls' = Append(calls, Call("workflow-gen", a.id, Null))
  /\ workflow' = Null
  /\ pc' = "gen"
  /\ UNCHANGED <<options, iteration, nextWorkflowOverride, manifest, manifestFile,
                 artifactDirs, executeWorkflowLocals, thrown, result, answers, faults>>

\* the generation call returns: artifacts, exec entry, manifest write, parseWorkflow
GenerateReturns(text) ==
  /\ pc = "gen"
  /\ UNCHANGED notRun
  /\ LET execId == Get(workflowGenExecId)
         label == WorkflowGenLabel(iteration)
         parsed == ParseWorkflow(text)
     IN  /\ artifactDirs' = Append(artifactDirs, ExecDirOf(execId, label))
         /\ manifest' = AddExecToManifest(manifest,
                           CreateExecEntry(execId, label, "session", "succeeded"))
         /\ manifestFile' = manifest'
         /\ IF parsed.ok
            THEN /\ workflow' = parsed.workflow
                 /\ EnterExecuteWorkflow(Get(parsed.workflow))
                 /\ UNCHANGED <<thrown, faults>>
            ELSE /\ thrown' = Some(parsed.error)
                 /\ faults' = faults \cup {"generation-parse"}
                 /\ pc' = "catch"
                 /\ UNCHANGED <<workflow, executeWorkflowLocals>>
  /\ UNCHANGED <<options, iteration, nextWorkflowOverride, workflowGenExecId, nextExecIndex,
                 result, calls, allocated, answers>>

\* the generation call throws: nothing is recorded
GenerateThrows ==
  /\ pc = "gen"
  /\ UNCHANGED notRun
  /\ thrown' = Some("adapter error")
  /\ faults' = faults \cup {"generation-adapter"}
  /\ pc' = "catch"
  /\ UNCHANGED <<options, iteration, nextWorkflowOverride, workflow, workflowGenExecId,
                 nextExecIndex, manifest, manifestFile, artifactDirs,
                 executeWorkflowLocals, result, calls, allocated, answers>>

\* executeWorkflow finds nothing ready and nothing running, and throws
WorkflowStuck ==
  /\ pc = "sched"
  /\ UNCHANGED notRun
  /\ pending # {}
  /\ IsStuck(ReadySteps, running)
  /\ thrown' = Some("Workflow stuck: cannot resolve remaining steps")
  /\ faults' = faults \cup {"stuck"}
  /\ pc' = "catch"
  /\ UNCHANGED <<options, iteration, nextWorkflowOverride, workflow, workflowGenExecId,
                 nextExecIndex, manifest, manifestFile, artifactDirs,
                 executeWorkflowLocals, result, calls, allocated, answers>>

\* one round of executeWorkflow: the wave is chosen and every executeStep of it
\* runs up to its adapter call
LaunchWave ==
  /\ pc = "sched"
  /\ UNCHANGED notRun
  /\ pending # {}
  /\ ~IsStuck(ReadySteps, running)
  /\ LET steps == WaveOf(ReadySteps, options.concurrency, running)
         a == AllocateMany(nextExecIndex, Len(steps))
     IN  /\ running' = running \cup {steps[i].id : i \in DOMAIN steps}
         /\ nextExecIndex' = a.next
         /\ allocated' = allocated \o a.ids
         /\ wave' = [i \in DOMAIN steps |->
                       [step |-> steps[i], execId |-> a.ids[i], settled |-> FALSE,
                        outcome |-> "", result |-> Null]]
         /\ calls' = calls \o [i \in DOMAIN steps |-> Call("step", a.ids[i], Some(steps[i]))]
  /\ pc' = "wave"
  /\ UNCHANGED <<options, iteration, nextWorkflowOverride, workflow, workflowGenExecId,
                 manifest, manifestFile, artifactDirs, completed, pending, thrown, result,
                 answers, faults>>

\* the adapter call of the wave's i-th executeStep ends: artifacts, exec entry, StepResult
StepSettles(i, outcome) ==
  /\ pc = "wave"
  /\ UNCHANGED notRun
  /\ i \in DOMAIN wave
  /\ ~wave[i].settled
  /\ LET e == wave[i] IN
       IF ExecuteStepCatches(outcome)
       THEN /\ artifactDirs' = Append(artifactDirs, ExecDirOf(e.execId, StepLabel(e.step.id)))
            /\ manifest' = AddExecToManifest(manifest, StepEntryOf(e.execId, e.step, outcome))
            /\ wave' = [wave EXCEPT ![i].settled = TRUE,
                                    ![i].outcome = outcome,
                                    ![i].result = Some(StepResultOf(e.step, outcome))]
            /\ UNCHANGED <<pc, thrown, faults>>
       ELSE /\ thrown' = Some("adapter error")
            /\ faults' = faults \cup {"step"}
            /\ pc' = "catch"
            /\ UNCHANGED <<artifactDirs, manifest, wave>>
  /\ UNCHANGED <<options, iteration, nextWorkflowOverride, workflow, workflowGenExecId,
                 nextExecIndex, manifestFile, completed, pending, running, result,
                 calls, allocated, answers>>

\* completed.set for the results of the wave, in wave order
RECURSIVE SetAll(_, _)
SetAll(m, results) ==
  IF results = <<>> THEN m
  ELSE SetAll(MapSet(m, Head(results).stepId, Head(results)), Tail(results))

\* Promise.all resolves: the results are folded into completed, pending and running
JoinWave ==
  /\ pc = "wave"
  /\ UNCHANGED notRun
  /\ \A i \in DOMAIN wave : wave[i].settled
  /\ LET results == [i \in DOMAIN wave |-> Get(wave[i].result)]
         ids == {results[i].stepId : i \in DOMAIN results}
     IN  /\ completed' = SetAll(completed, results)
         /\ pending' = pending \ ids
         /\ running' = running \ ids
  /\ wave' = <<>>
  /\ pc' = "sched"
  /\ UNCHANGED <<options, iteration, nextWorkflowOverride, workflow, workflowGenExecId,
                 nextExecIndex, manifest, manifestFile, artifactDirs, thrown, result,
                 history>>

\* workflow.steps.map((s) => completed.get(s.id)!): what executeWorkflow
\* returns once nothing is pending
ExecuteWorkflowReturn ==
  [i \in DOMAIN Get(workflow).steps |-> completed[Get(workflow).steps[i].id]]

\* the Map recordWorkflowEdges fills: for each step id the session id of the
\* last result of that id whose session id is truthy
ExecByStep(results) ==
  LET known == {i \in DOMAIN results : results[i].sessionId # ""}
      lastOf(id) == CHOOSE i \in known :
                      /\ results[i].stepId = id
                      /\ \A j \in known : results[j].stepId = id => j <= i
  IN  [id \in {results[i].stepId : i \in known} |-> results[lastOf(id)].sessionId]

RECURSIVE RecordDeps(_, _, _, _, _)
\* the inner loop of recordWorkflowEdges over one step's dependsOn, from index j
RecordDeps(m, deps, execByStep, stepExecId, j) ==
  IF j > Len(deps) THEN m
  ELSE RecordDeps(IF deps[j] \in DOMAIN execByStep
                  THEN AddDependsOnEdge(m, SessionChars(execByStep[deps[j]]),
                                        SessionChars(stepExecId))
                  ELSE m,
                  deps, execByStep, stepExecId, j + 1)

RECURSIVE RecordDependsOn(_, _, _, _)
\* the outer loop of recordWorkflowEdges over workflow.steps, from index i
RecordDependsOn(m, steps, execByStep, i) ==
  IF i > Len(steps) THEN m
  ELSE RecordDependsOn(IF steps[i].id \in DOMAIN execByStep
                       THEN RecordDeps(m, steps[i].dependsOn, execByStep,
                                       execByStep[steps[i].id], 1)
                       ELSE m,
                       steps, execByStep, i + 1)

RECURSIVE RecordInvokesToSteps(_, _, _, _)
\* invokes edges from one exec to the session of every result that has one
RecordInvokesToSteps(m, fromExecId, results, i) ==
  IF i > Len(results) THEN m
  ELSE RecordInvokesToSteps(IF results[i].sessionId # ""
                            THEN AddInvokesEdge(m, fromExecId,
                                                SessionChars(results[i].sessionId))
                            ELSE m,
                            fromExecId, results, i + 1)

\* recordWorkflowEdges
RecordWorkflowEdges(w, results, genExecId, m) ==
  LET withDeps == RecordDependsOn(m, w.steps, ExecByStep(results), 1)
  IN  IF IsSome(genExecId)
      THEN RecordInvokesToSteps(withDeps, Get(genExecId), results, 1)
      ELSE withDeps

RECURSIVE RecordInvokesToCheck(_, _, _, _)
\* run(): invokes edges from every step result that has a session to the
\* completion check
RecordInvokesToCheck(m, results, checkExecId, i) ==
  IF i > Len(results) THEN m
  ELSE RecordInvokesToCheck(IF results[i].sessionId # ""
                            THEN AddInvokesEdge(m, SessionChars(results[i].sessionId),
                                                checkExecId)
                            ELSE m,
                            results, checkExecId, i + 1)

\* executeWorkflow returns and checkCompletion runs up to its adapter call
BeginCheck ==
  /\ pc = "sched"
  /\ UNCHANGED notRun
  /\ pending = {}
  /\ LET a == AllocateExecId(nextExecIndex) IN
       /\ nextExecIndex' = a.next
       /\ allocated' = Append(allocated, a.id)
       /\ calls' = Append(calls, Call("completion-check", a.id, Null))
  /\ manifest' = RecordWorkflowEdges(Get(workflow), ExecuteWorkflowReturn,
                                      workflowGenExecId, manifest)
  /\ pc' = "check"
  /\ UNCHANGED <<options, iteration, nextWorkflowOverride, workflow, workflowGenExecId,
                 manifestFile, artifactDirs, executeWorkflowLocals, thrown,
                 result, answers, faults>>

\* the completion call returns: artifacts, exec entry, parse, then the rest of
\* the iteration up to the return or the next loop test
CheckReturns(text) ==
  /\ pc = "check"
  /\ UNCHANGED notRun
  /\ LET execId == calls[Len(calls)].execId
         label == CompletionLabel(iteration)
         withEntry == AddExecToManifest(manifest,
                         CreateExecEntry(execId, label, "session", "succeeded"))
         parsed == ParseCompletion(text)
         withEdges == RecordInvokesToCheck(withEntry, ExecuteWorkflowReturn, execId, 1)
     IN  /\ artifactDirs' = Append(artifactDirs, ExecDirOf(execId, label))
         /\ IF ~parsed.ok
            THEN /\ manifest' = withEntry
                 /\ thrown' = Some(parsed.error)
                 /\ faults' = faults \cup {"review-normalize"}
                 /\ pc' = "catch"
                 /\ UNCHANGED <<manifestFile, result, iteration, nextWorkflowOverride,
                                answers>>
            ELSE LET c == Get(parsed.completion) IN
                 /\ answers' = Append(answers, [iteration |-> iteration,
                                                 text |-> IF c.done \/ text = GarbageText
                                                          THEN Some(text) ELSE Null,
                                                 completion |-> c])
                 /\ IF c.done
                    THEN /\ manifest' = FinalizeRun(withEdges)
                         /\ manifestFile' = manifest'
                         /\ result' = Returned("completed", Some(c.summary), Null)
                         /\ pc' = "returned"
                         /\ UNCHANGED <<iteration, nextWorkflowOverride>>
                    ELSE /\ manifest' = withEdges
                         /\ manifestFile' = manifest'
                         /\ nextWorkflowOverride' =
                              IF IsSome(c.nextWorkflow) THEN c.nextWorkflow
                              ELSE nextWorkflowOverride
                         /\ iteration' = iteration + 1
                         /\ pc' = "loop"
                         /\ UNCHANGED result
                 /\ UNCHANGED <<thrown, faults>>
  /\ UNCHANGED <<options, workflow, workflowGenExecId, nextExecIndex,
                 executeWorkflowLocals, calls, allocated>>

\* the completion call throws: nothing is recorded
CheckThrows ==
  /\ pc = "check"
  /\ UNCHANGED notRun
  /\ thrown' = Some("adapter error")
  /\ faults' = faults \cup {"review-adapter"}
  /\ pc' = "catch"
  /\ UNCHANGED <<options, iteration, nextWorkflowOverride, workflow, workflowGenExecId,
                 nextExecIndex, manifest, manifestFile, artifactDirs,
                 executeWorkflowLocals, result, calls, allocated, answers>>

\* the catch block of run(): finalizeRun, writeManifest, return error
Catch ==
  /\ pc = "catch"
  /\ UNCHANGED notRun
  /\ manifest' = FinalizeRun(manifest)
  /\ manifestFile' = manifest'
  /\ result' = Returned("error", Null, thrown)
  /\ pc' = "returned"
  /\ UNCHANGED <<options, iteration, nextWorkflowOverride, workflow, workflowGenExecId,
                 nextExecIndex, artifactDirs, executeWorkflowLocals, thrown, history>>

Next ==
  \/ IterationsExhausted
  \/ UseOverride
  \/ BeginGenerate
  \/ \E text \in GenTexts(options.maxIterations) : GenerateReturns(text)
  \/ GenerateThrows
  \/ WorkflowStuck
  \/ LaunchWave
  \/ \E i \in DOMAIN wave, outcome \in StepOutcomes : StepSettles(i, outcome)
  \/ JoinWave
  \/ BeginCheck
  \/ \E text \in CheckTextsOf(options.maxIterations) : CheckReturns(text)
  \/ CheckThrows
  \/ Catch

Spec == Init /\ [][Next]_vars

\* every adapter call and file write eventually returns or throws, and the
\* event loop keeps running the continuation that is ready
FairSpec == Spec /\ WF_vars(Next)

\* ------------------------------------------------------------- properties

HasReturned == pc = "returned"
DoneAnswers == {k \in DOMAIN answers : answers[k].completion.done}
CallsOfKind(kind) == {k \in DOMAIN calls : calls[k].kind = kind}
\* the summary a parsed answer text carries, "Done." when it carries none
SummaryOfText(text) ==
  IF IsSome(text.value.summary) THEN Get(text.value.summary) ELSE "Done."

\* C1: run() returns completed exactly when a completion check answered
\* done:true, with that answer's summary and with that check as the last
\* adapter call; it returns max-iterations exactly when maxIterations
\* iterations were all answered not-done and nothing was thrown; it returns
\* error, with the exception's message, exactly when an exception escaped
\* generation, step scheduling or review.
C1_RunOutcome ==
  /\ ~HasReturned => (result = Null /\ DoneAnswers = {})
  /\ HasReturned =>
       LET r == Get(result) IN
       /\ r.status \in {"completed", "max-iterations", "error"}
       /\ (r.status = "completed") <=> (DoneAnswers # {})
       /\ r.status = "completed" =>
            /\ DoneAnswers = {Len(answers)}
            /\ r.summary = Some(SummaryOfText(Get(answers[Len(answers)].text)))
            /\ calls[Len(calls)].kind = "completion-check"
            /\ calls[Len(calls)].iteration = answers[Len(answers)].iteration
       /\ (r.status = "max-iterations") <=>
            /\ faults = {}
            /\ DoneAnswers = {}
            /\ Len(answers) = Max(0, options.maxIterations)
            /\ \A k \in DOMAIN answers : answers[k].iteration = k
       /\ (r.status = "error") <=> (faults # {})
       /\ r.status = "error" => (IsSome(r.error) /\ r.error = thrown)

\* a run that was answered not-done and then done:true with a summary
C1_Witness ==
  /\ HasReturned
  /\ Get(result).status = "completed"
  /\ Get(result).summary = Some("All complete!")
  /\ Len(answers) >= 2

\* C2: whichever way run() ends, finishedAt is stamped and the manifest on
\* disk is the stamped manifest by the time run() returns.
C2_FinalizedOnReturn ==
  HasReturned =>
    /\ IsSome(manifest.finishedAt)
    /\ IsSome(manifestFile.finishedAt)
    /\ manifestFile = manifest

\* a run ended by an exception after steps had run
C2_Witness ==
  /\ HasReturned
  /\ Get(result).status = "error"
  /\ "stuck" \in faults
  /\ Len(manifestFile.execs) >= 2
  /\ IsSome(manifestFile.finishedAt)

\* C3: at most maxIterations iterations, generation calls and completion
\* checks; every round of the scheduling loop launches a step and ends with
\* fewer pending steps (or the stuck error is raised); and run() returns.
C3_IterationBound ==
  /\ Cardinality(CallsOfKind("workflow-gen")) <= Max(0, options.maxIterations)
  /\ Cardinality(CallsOfKind("completion-check")) <= Max(0, options.maxIterations)
  /\ \A k \in DOMAIN calls : calls[k].iteration \in 1 .. options.maxIterations
  /\ iteration <= Max(0, options.maxIterations) + 1

C3_RoundProgress ==
  /\ (pc = "sched" /\ pc' = "wave") => wave' # <<>>
  /\ (pc = "wave" /\ pc' = "sched") => Cardinality(pending') < Cardinality(pending)
  /\ (pc = "sched" /\ pc' = "catch") => IsStuck(ReadySteps, running)

C3_BoundedAndTerminating ==
  /\ []C3_IterationBound
  /\ [][C3_RoundProgress]_vars
  /\ <>HasReturned

\* a run that used every iteration it was allowed
C3_Witness ==
  /\ HasReturned
  /\ Get(result).status = "max-iterations"
  /\ options.maxIterations = MaxIter
  /\ Cardinality(CallsOfKind("completion-check")) = MaxIter

\* C4: no step's adapter call starts before every id in its dependsOn has a
\* StepResult in completed.
C4_DependenciesFirst ==
  /\ \A k \in CallsOfKind("step") :
       Range(Get(calls[k].step).dependsOn) \subseteq calls[k].completedAt
  /\ \A i \in DOMAIN wave :
       Range(wave[i].step.dependsOn) \subseteq DOMAIN completed

\* a step with two dependencies is in flight, one of its dependencies failed
C4_Witness ==
  /\ pc = "wave"
  /\ \E i \in DOMAIN wave :
       /\ ~wave[i].settled
       /\ Len(wave[i].step.dependsOn) = 2
       /\ \E d \in Range(wave[i].step.dependsOn) : completed[d].status = "failed"

\* --------------------------------------------- the shape of a workflow

StepIds(w) == {w.steps[i].id : i \in DOMAIN w.steps}
UniqueStepIds(w) == \A i, j \in DOMAIN w.steps : w.steps[i].id = w.steps[j].id => i = j
DependsOnPairs(w) ==
  UNION {{<<w.steps[i].id, d>> : d \in Range(w.steps[i].dependsOn)} : i \in DOMAIN w.steps}
HasUnknownDependency(w) == \E e \in DependsOnPairs(w) : e[2] \notin StepIds(w)

\* the pairs joined by a dependsOn path of at most 2^n edges
RECURSIVE Paths(_, _)
Paths(w, n) ==
  IF n = 0 THEN DependsOnPairs(w)
  ELSE LET r == Paths(w, n - 1)
       IN  r \cup {<<q[1][1], q[2][2]>> : q \in {p \in r \X r : p[1][2] = p[2][1]}}
HasCycle(w) == \E e \in Paths(w, Len(w.steps)) : e[1] = e[2]
Unschedulable(w) == HasUnknownDependency(w) \/ HasCycle(w)

CallsIn(j, kind) == {k \in DOMAIN calls : calls[k].iteration = j /\ calls[k].kind = kind}
StepCallsFor(j, id) == {k \in CallsIn(j, "step") : Get(calls[k].step).id = id}

\* ------------------------------------------------------------------- C5

InFlight == Cardinality({i \in DOMAIN wave : ~wave[i].settled})
\* the workflow's own concurrency if it has one, else the run's option
EffectiveConcurrency ==
  IF IsSome(workflow) /\ IsSome(Get(workflow).concurrency)
  THEN Get(Get(workflow).concurrency)
  ELSE options.concurrency

\* C5: the number of step executions in flight never exceeds
\* max(1, effectiveConcurrency), whatever the configured values are.
C5_InFlightBound == InFlight <= Max(1, EffectiveConcurrency)

\* ------------------------------------------------------------------- C6

\* C6: a step whose adapter call throws or returns failed becomes a failed
\* StepResult; no exception leaves executeStep, the other steps of the wave
\* stay in flight, a pending step whose dependencies all have a result (failed
\* or not) is ready, the stuck error is raised only for a workflow that is
\* unschedulable by its shape, and at the completion check every step of the
\* workflow has been executed.
C6_FailureIsData ==
  /\ "step" \notin faults
  /\ \A i \in DOMAIN wave :
       wave[i].settled =>
         /\ pc = "wave"
         /\ Get(wave[i].result).status =
              (IF wave[i].outcome = "succeeded" THEN "succeeded" ELSE "failed")
  /\ pc = "sched" =>
       \A i \in DOMAIN PendingSteps :
         Range(PendingSteps[i].dependsOn) \subseteq DOMAIN completed
           => PendingSteps[i] \in Range(ReadySteps)
  /\ "stuck" \in faults => Unschedulable(Get(workflow))
  /\ pc = "check" =>
       \A id \in StepIds(Get(workflow)) :
         /\ id \in DOMAIN completed
         /\ StepCallsFor(iteration, id) # {}
  /\ (HasReturned /\ Get(result).status = "error") =>
       faults \cap {"generation-adapter", "generation-parse", "stuck",
                    "review-adapter", "review-normalize"} # {}

\* the completion check is reached after a step's adapter call threw and the
\* step that depends on it was executed all the same
C6_Witness ==
  /\ pc = "check"
  /\ \E i \in DOMAIN Get(workflow).steps :
       LET step == Get(workflow).steps[i] IN
       /\ step.dependsOn # <<>>
       /\ step.id \in DOMAIN completed
       /\ \E d \in Range(step.dependsOn) \cap DOMAIN completed :
            /\ completed[d].status = "failed"
            /\ IsSome(completed[d].error)

\* ------------------------------------------------------------------- C7

\* C7: after a not-done answer with a valid nextWorkflow the next iteration
\* makes no generation call, runs that workflow and its steps only, and clears
\* the override; after a not-done answer without one, the next iteration begins
\* with a generation call; a done answer ends the run as completed.
C7_OverrideOnce ==
  /\ \A k \in DOMAIN answers :
       LET c == answers[k].completion
           j == k + 1
       IN  /\ answers[k].iteration = k
           /\ c.done => (HasReturned /\ Get(result).status = "completed")
           /\ (~c.done /\ IsSome(c.nextWorkflow)) =>
                LET next == Get(c.nextWorkflow) IN
                /\ CallsIn(j, "workflow-gen") = {}
                /\ \A n \in CallsIn(j, "step") : Get(calls[n].step) \in Range(next.steps)
                /\ CallsIn(j, "completion-check") # {} =>
                     /\ {Get(calls[n].step) : n \in CallsIn(j, "step")} = Range(next.steps)
                     /\ Cardinality(CallsIn(j, "step")) = Len(next.steps)
                /\ (iteration = j /\ pc \in {"sched", "wave", "check"}) =>
                     /\ workflow = c.nextWorkflow
                     /\ nextWorkflowOverride = Null
           /\ (~c.done /\ ~IsSome(c.nextWorkflow)) =>
                /\ (\E n \in DOMAIN calls : calls[n].iteration = j) =>
                     Cardinality(CallsIn(j, "workflow-gen")) = 1
                /\ (iteration = j /\ pc = "loop") => nextWorkflowOverride = Null

\* iteration 2 ran the reviewer's workflow without generating, iteration 3
\* generated again, and the run ended completed
C7_Witness ==
  /\ HasReturned
  /\ Get(result).status = "completed"
  /\ Len(answers) = 3
  /\ IsSome(answers[1].completion.nextWorkflow)
  /\ ~IsSome(answers[2].completion.nextWorkflow)
  /\ CallsIn(2, "workflow-gen") = {}
  /\ CallsIn(2, "step") # {}
  /\ CallsIn(3, "workflow-gen") # {}

\* ------------------------------------------------------------------- C8

LabelOfCall(c) ==
  CASE c.kind = "workflow-gen" -> WorkflowGenLabel(c.iteration)
    [] c.kind = "step" -> StepLabel(Get(c.step).id)
    [] c.kind = "completion-check" -> CompletionLabel(c.iteration)

\* C8: when run() returns and no generation or completion-check adapter call
\* threw, the manifest's execs hold exactly one entry per adapter call made
\* (in memory and on disk), and a one-step workflow completed in the first
\* iteration leaves exactly 3 entries.
C8_OneEntryPerCall ==
  (HasReturned /\ faults \cap {"generation-adapter", "review-adapter"} = {}) =>
    LET execs == manifestFile.execs IN
    /\ manifest.execs = execs
    /\ Len(execs) = Len(calls)
    /\ \A k \in DOMAIN calls :
         Cardinality({n \in DOMAIN execs :
                        /\ execs[n].execId = calls[k].execId
                        /\ execs[n].label = LabelOfCall(calls[k])}) = 1
    /\ (/\ Get(result).status = "completed"
        /\ Len(answers) = 1
        /\ Len(Get(workflow).steps) = 1) => Len(execs) = 3

\* a returned run whose manifest holds the entry of a step whose call threw
C8_Witness ==
  /\ HasReturned
  /\ faults = {}
  /\ Len(manifestFile.execs) >= 4
  /\ \E n \in DOMAIN manifestFile.execs :
       /\ manifestFile.execs[n].status = "failed"
       /\ manifestFile.execs[n].sessionId = ""

\* ------------------------------------------------------------------- C9

C9_UniqueIds ==
  /\ NoDuplicates(allocated)
  /\ Len(allocated) = nextExecIndex - 1
  /\ \A k \in DOMAIN allocated : allocated[k] = ExecIdOf(k)
  /\ NoDuplicates([n \in DOMAIN manifest.execs |-> manifest.execs[n].execId])
  /\ NoDuplicates(artifactDirs)

C9_CounterStep ==
  /\ nextExecIndex' >= nextExecIndex
  /\ nextExecIndex' - nextExecIndex = Len(allocated') - Len(allocated)

\* C9: allocateExecId never returns an id twice, nextExecIndex never decreases
\* and grows by one per allocation; no two manifest entries share an execId
\* and no two executions share an artifact directory.
C9_AllocationUnique == []C9_UniqueIds /\ [][C9_CounterStep]_vars

\* two steps of one wave whose labels slugify alike have both written their
\* artifacts, one of them after its adapter call threw
C9_Witness ==
  /\ pc = "wave"
  /\ Len(wave) = 2
  /\ wave[1].settled /\ wave[2].settled
  /\ wave[1].step.id # wave[2].step.id
  /\ SafeLabelOf[StepLabel(wave[1].step.id)] = SafeLabelOf[StepLabel(wave[2].step.id)]
  /\ \E i \in DOMAIN wave : wave[i].outcome = "throws"

\* ------------------------------------------------------------------ C10

\* the statement for every workflow: one with an unknown dependency or a cycle
\* never reaches the completion check and its run returns error
C10_StuckForAnyWorkflow ==
  (IsSome(workflow) /\ Unschedulable(Get(workflow))) =>
    /\ pc # "check"
    /\ HasReturned => Get(result).status = "error"

C10_StuckState ==
  (IsSome(workflow) /\ UniqueStepIds(Get(workflow)) /\ Unschedulable(Get(workflow))) =>
    /\ pc # "check"
    /\ (pc \in {"catch", "returned"}) =>
         /\ "stuck" \in faults
         /\ thrown = Some("Workflow stuck: cannot resolve remaining steps")
         /\ pending # {}
         /\ \A id \in pending : StepCallsFor(iteration, id) = {}
    /\ HasReturned =>
         /\ Get(result).status = "error"
         /\ Get(result).error = thrown
         /\ IsSome(manifestFile.finishedAt)

C10_StuckAtOnce ==
  (pc = "sched" /\ pending # {} /\ ReadySteps = <<>> /\ running = {}) => pc' = "catch"

\* C10: for a workflow with unique step ids that has an unknown dependency or
\* a cycle, executeWorkflow throws the stuck error in the very round in which
\* nothing is ready and nothing runs, the steps still pending are never
\* executed, and run() returns error with finishedAt on disk.
C10_StuckWhenUnresolvable == []C10_StuckState /\ [][C10_StuckAtOnce]_vars

\* a cycle beside a free step: the free step ran, the cycle was never started,
\* run() returned the stuck error
C10_Witness ==
  /\ HasReturned
  /\ "stuck" \in faults
  /\ UniqueStepIds(Get(workflow))
  /\ HasCycle(Get(workflow))
  /\ CallsIn(iteration, "step") # {}
  /\ Cardinality(pending) = 2

\* ====================================================================
\* The dependency resolver: resolveDependencyOrder and detectCycle
\* ====================================================================

\* run() is not in use
RunIdle ==
  /\ options = [maxIterations |-> 0, concurrency |-> 1]
  /\ pc = "idle"
  /\ iteration = 1
  /\ nextWorkflowOverride = Null
  /\ workflow = Null
  /\ workflowGenExecId = Null
  /\ nextExecIndex = 1
  /\ manifest = InitialManifest
  /\ manifestFile = manifest
  /\ artifactDirs = <<>>
  /\ completed = EmptyMap
  /\ pending = {}
  /\ running = {}
  /\ wave = <<>>
  /\ thrown = Null
  /\ result = Null
  /\ calls = <<>>
  /\ allocated = <<>>
  /\ answers = <<>>
  /\ faults = {}

\* step lists have at most MaxSteps steps
MaxSteps == 3
\* and at most MaxEdges dependsOn entries in all
MaxEdges == 4

\* the id of the step at a position, and an id that is no step's
StepNames == <<"a", "b", "c", "d", "e">>
NameAt(i) == <<StepNames[i]>>
UnknownId == <<"z">>

\* new Map(steps.map((s) => [s.id, s])): the last step of an id wins
ById(steps) ==
  [id \in {steps[i].id : i \in DOMAIN steps} |->
     steps[CHOOSE i \in DOMAIN steps :
             /\ steps[i].id = id
             /\ \A j \in DOMAIN steps : steps[j].id = id => j <= i]]

\* path.indexOf(id)
IndexOf(path, id) == CHOOSE i \in DOMAIN path : path[i] = id /\ \A j \in 1 .. (i - 1) : path[j] # id

\* dfs(id) of detectCycle on the traversal state st; DfsDeps is its for loop
\* over the dependencies from position k on
RECURSIVE Dfs(_, _, _)
RECURSIVE DfsDeps(_, _, _, _)
Dfs(byId, id, st) ==
  IF id \in st.inStack
  THEN [st EXCEPT !.cycle = Some(SubSeq(st.path, IndexOf(st.path, id), Len(st.path)) \o <<id>>)]
  ELSE IF id \in st.visited THEN st
  ELSE LET entered == [st EXCEPT !.visited = @ \cup {id},
                                 !.inStack = @ \cup {id},
                                 !.path = Append(@, id)]
           after == IF id \in DOMAIN byId
                    THEN DfsDeps(byId, byId[id].dependsOn, 1, entered)
                    ELSE entered
       IN  IF IsSome(after.cycle) THEN after
           ELSE [after EXCEPT !.path = SubSeq(@, 1, Len(@) - 1), !.inStack = @ \ {id}]
DfsDeps(byId, deps, k, st) ==
  IF k > Len(deps) THEN st
  ELSE LET r == Dfs(byId, deps[k], st)
       IN  IF IsSome(r.cycle) THEN r ELSE DfsDeps(byId, deps, k + 1, r)

\* the for loop of detectCycle over the steps from position k on
RECURSIVE DfsRoots(_, _, _)
DfsRoots(steps, k, st) ==
  IF k > Len(steps) THEN st
  ELSE LET r == Dfs(ById(steps), steps[k].id, st)
       IN  IF IsSome(r.cycle) THEN r ELSE DfsRoots(steps, k + 1, r)

\* variant: a search that starts from the first step only
DetectCycleFromFirstStep(steps) ==
  IF steps = <<>> THEN Null
  ELSE Dfs(ById(steps), steps[1].id,
           [visited |-> {}, inStack |-> {}, path |-> <<>>, cycle |-> Null]).cycle

\* detectCycle: Null for null, else the cycle path
DetectCycle(steps) ==
  DfsRoots(steps, 1, [visited |-> {}, inStack |-> {}, path |-> <<>>, cycle |-> Null]).cycle

\* the while loop of resolveDependencyOrder
RECURSIVE ResolveWaves(_, _, _)
ResolveWaves(steps, done, waves) ==
  IF Cardinality(done) >= Len(steps)
  THEN [kind |-> "waves", waves |-> waves, path |-> <<>>, remaining |-> <<>>]
  ELSE LET ready == SelectSeq(steps, LAMBDA step :
                      /\ step.id \notin done
                      /\ \A i \in DOMAIN step.dependsOn : step.dependsOn[i] \in done)
           left == SelectSeq(steps, LAMBDA step : step.id \notin done)
       IN  IF ready = <<>>
           THEN [kind |-> "stuck", waves |-> <<>>, path |-> <<>>,
                 remaining |-> [i \in DOMAIN left |-> left[i].id]]
           ELSE ResolveWaves(steps, done \cup {ready[i].id : i \in DOMAIN ready},
                             Append(waves, ready))

\* variant: a resolver that puts one ready step in each wave
RECURSIVE OneStepWaves(_, _, _)
OneStepWaves(steps, done, waves) ==
  IF Cardinality(done) >= Len(steps) THEN waves
  ELSE LET ready == SelectSeq(steps, LAMBDA step :
                      /\ step.id \notin done
                      /\ \A i \in DOMAIN step.dependsOn : step.dependsOn[i] \in done)
       IN  IF ready = <<>> THEN waves
           ELSE OneStepWaves(steps, done \cup {ready[1].id}, Append(waves, <<ready[1]>>))
ResolveOneStepPerWave(steps) ==
  IF IsSome(DetectCycle(steps))
  THEN [kind |-> "circular", waves |-> <<>>, path |-> Get(DetectCycle(steps)),
        remaining |-> <<>>]
  ELSE [kind |-> "waves", waves |-> OneStepWaves(steps, {}, <<>>), path |-> <<>>,
        remaining |-> <<>>]

\* variant: resolveDependencyOrder without the call of detectCycle
ResolveWithoutCycleCheck(steps) == ResolveWaves(steps, {}, <<>>)

\* resolveDependencyOrder: the waves, or the error it throws
ResolveDependencyOrder(steps) ==
  IF IsSome(DetectCycle(steps))
  THEN [kind |-> "circular", waves |-> <<>>, path |-> Get(DetectCycle(steps)),
        remaining |-> <<>>]
  ELSE ResolveWaves(steps, {}, <<>>)

\* ------------------------------------------------ the step lists resolved

\* the ids a dependsOn entry of a list of n steps may name, in a fixed order
TargetSeq(n) == [i \in 1 .. n |-> NameAt(i)] \o <<UnknownId>>
SeqOfTargets(n, chosen) == SelectSeq(TargetSeq(n), LAMBDA id : id \in chosen)

\* the dependsOn entries a list of n steps may have, as <<step, id>> pairs,
\* and the sets of at most k of them
AllEdges(n) == (1 .. n) \X Range(TargetSeq(n))
RECURSIVE EdgeSets(_, _)
EdgeSets(n, k) ==
  IF k = 0 THEN {{}}
  ELSE LET fewer == EdgeSets(n, k - 1)
       IN  fewer \cup {s \cup {e} : s \in fewer, e \in AllEdges(n)}
DepsOf(n, edges) == [i \in 1 .. n |-> {e[2] : e \in {x \in edges : x[1] = i}}]

\* a list of n steps: step i is named by its position, except that step
\* shared (when not 1) takes the id of step 1; deps[i] is what step i depends on
StepList(n, shared, deps) ==
  [i \in 1 .. n |->
     [id |-> IF i = shared THEN NameAt(1) ELSE NameAt(i),
      goal |-> <<"g">>,
      dependsOn |-> SeqOfTargets(n, deps[i])]]

\* the length, the shared position and the dependsOn entries of each list
\* of at most n steps and k entries
Shapes(n, k) ==
  {t \in (0 .. n) \X (1 .. Max(1, n)) \X EdgeSets(n, k) :
     /\ t[2] <= Max(1, t[1])
     /\ t[3] \subseteq AllEdges(t[1])}

StepLists(n, k) == {StepList(t[1], t[2], DepsOf(t[1], t[3])) : t \in Shapes(n, k)}

ResolverInit ==
  /\ RunIdle
  /\ CliIdle
  /\ CapIdle
  /\ ParserIdle
  /\ ViewerIdle
  /\ LoopIdle
  /\ rSteps \in StepLists(MaxSteps, MaxEdges)
  /\ rPc = "input"
  /\ rCycle = Null
  /\ rResolved = Null

\* detectCycle(steps)
CallDetectCycle ==
  /\ rPc = "input"
  /\ rCycle' = Some(DetectCycle(rSteps))
  /\ rPc' = "checked"
  /\ UNCHANGED <<rSteps, rResolved, notResolver>>

\* resolveDependencyOrder(steps)
CallResolve ==
  /\ rPc = "input"
  /\ rResolved' = Some(ResolveDependencyOrder(rSteps))
  /\ rPc' = "resolved"
  /\ UNCHANGED <<rSteps, rCycle, notResolver>>

ResolverNext == CallDetectCycle \/ CallResolve

ResolverSpec == ResolverInit /\ [][ResolverNext]_<<vars, notRun>>

\* ------------------------------------------------------------------ C11

AsWorkflow(steps) == [steps |-> steps]
IsDag(steps) ==
  /\ UniqueStepIds(AsWorkflow(steps))
  /\ ~HasUnknownDependency(AsWorkflow(steps))
  /\ ~HasCycle(AsWorkflow(steps))

\* the number of edges of the longest dependency chain below a step of a DAG
RECURSIVE ChainLength(_, _)
ChainLength(steps, step) ==
  IF step.dependsOn = <<>> THEN 0
  ELSE LET below == {ChainLength(steps, steps[i]) :
                       i \in {j \in DOMAIN steps : steps[j].id \in Range(step.dependsOn)}}
       IN  1 + (CHOOSE m \in below : \A x \in below : x <= m)

\* the positions (wave, place) at which a step occurs in the waves
PlacesOf(waves, step) ==
  {p \in (DOMAIN waves) \X (1 .. MaxSteps + 1) :
     p[2] \in DOMAIN waves[p[1]] /\ waves[p[1]][p[2]] = step}

ExampleList ==
  <<[id |-> NameAt(1), goal |-> <<"g">>, dependsOn |-> <<>>],
    [id |-> NameAt(2), goal |-> <<"g">>, dependsOn |-> <<>>],
    [id |-> NameAt(3), goal |-> <<"g">>, dependsOn |-> <<NameAt(1), NameAt(2)>>]>>

\* C11: for a step list with unique ids whose dependsOn edges form a DAG over
\* the list, resolveDependencyOrder returns waves: none is empty, each step
\* is in exactly one wave, at the index one past the length of its longest
\* dependency chain, so every dependency lies in a strictly earlier wave;
\* a, b and c depending on both give [[a, b], [c]].
C11_WavesOfDag ==
  (rPc = "resolved" /\ IsDag(rSteps)) =>
    LET r == Get(rResolved) IN
    /\ r.kind = "waves"
    /\ \A k \in DOMAIN r.waves :
         /\ r.waves[k] # <<>>
         /\ Range(r.waves[k]) \subseteq Range(rSteps)
    /\ \A i \in DOMAIN rSteps :
         /\ Cardinality(PlacesOf(r.waves, rSteps[i])) = 1
         /\ \A p \in PlacesOf(r.waves, rSteps[i]) :
              /\ p[1] = ChainLength(rSteps, rSteps[i]) + 1
              /\ \A j \in DOMAIN rSteps :
                   rSteps[j].id \in Range(rSteps[i].dependsOn) =>
                     \A q \in PlacesOf(r.waves, rSteps[j]) : q[1] < p[1]
    /\ rSteps = ExampleList =>
         r.waves = <<<<ExampleList[1], ExampleList[2]>>, <<ExampleList[3]>>>>

\* the example has been resolved into its two waves
C11_Witness ==
  /\ rPc = "resolved"
  /\ rSteps = ExampleList
  /\ IsDag(rSteps)
  /\ Get(rResolved).kind = "waves"
  /\ Len(Get(rResolved).waves) = 2

\* ------------------------------------------------------------------ C12

\* a path of at least two ids that ends where it starts and in which each
\* id is the id of a step that lists the next id in its dependsOn
IsCyclePath(steps, path) ==
  /\ Len(path) >= 2
  /\ path[1] = path[Len(path)]
  /\ \A k \in 1 .. (Len(path) - 1) :
       <<path[k], path[k + 1]>> \in DependsOnPairs(AsWorkflow(steps))

\* C12 as stated: detectCycle returns null exactly when the dependsOn
\* relation over the given steps has no cycle, and otherwise a real cycle
\* path, for every step list.
C12_NullIffAcyclic ==
  rPc = "checked" =>
    LET found == Get(rCycle) IN
    /\ found = Null <=> ~HasCycle(AsWorkflow(rSteps))
    /\ IsSome(found) => IsCyclePath(rSteps, Get(found))

\* C12 amended: for a step list with unique ids detectCycle returns null
\* exactly when the dependsOn relation has no cycle; for every step list a
\* returned path has length >= 2, ends where it starts, each id listing the
\* next in its dependsOn (a self-dependency gives [id, id]), and holds ids
\* of steps only: a dependency on an unknown id never produces a report.
C12_NullIffAcyclicForUniqueIds ==
  rPc = "checked" =>
    LET found == Get(rCycle)
        cyclic == HasCycle(AsWorkflow(rSteps))
    IN
    /\ UniqueStepIds(AsWorkflow(rSteps)) => (found = Null <=> ~cyclic)
    /\ IsSome(found) =>
         /\ IsCyclePath(rSteps, Get(found))
         /\ Range(Get(found)) \subseteq StepIds(AsWorkflow(rSteps))
         /\ cyclic
    /\ (~cyclic /\ HasUnknownDependency(AsWorkflow(rSteps))) => found = Null

\* a list with unique ids, a dependency on an unknown id and a cycle of two
\* steps that is not entered from the first step has been searched
C12_Witness ==
  /\ rPc = "checked"
  /\ UniqueStepIds(AsWorkflow(rSteps))
  /\ HasUnknownDependency(AsWorkflow(rSteps))
  /\ rSteps[1].dependsOn = <<UnknownId>>
  /\ IsSome(Get(rCycle))
  /\ Len(Get(Get(rCycle))) = 3

\* ------------------------------------------------------------------ C13

\* the ids of the steps, in list order, that depend directly or through
\* other steps on an id that is not in the list
UnresolvedIds(steps) ==
  LET w == AsWorkflow(steps)
      reached == Paths(w, Len(steps))
      blocked(step) == \E e \in reached : e[1] = step.id /\ e[2] \notin StepIds(w)
      kept == SelectSeq(steps, blocked)
  IN  [k \in DOMAIN kept |-> kept[k].id]

FaultOfResolve(steps, r) ==
  LET w == AsWorkflow(steps)
      cyclic == HasCycle(w)
  IN
  /\ cyclic => r.kind = "circular" /\ IsCyclePath(steps, r.path)
  /\ (~cyclic /\ HasUnknownDependency(w)) =>
       /\ r.kind = "stuck"
       /\ r.remaining # <<>>
       /\ r.remaining = UnresolvedIds(steps)
  /\ r.kind = "waves" => ~cyclic /\ ~HasUnknownDependency(w)

\* C13 as stated: for every step list, resolveDependencyOrder raises the
\* circular-dependency error naming a cycle path when the steps contain a
\* cycle, the stuck error listing the unresolved ids when there is no cycle
\* but a dependency on an id that is not in the list, and returns waves in
\* neither case.
C13_FaultByCause ==
  rPc = "resolved" => FaultOfResolve(rSteps, Get(rResolved))

\* C13 amended: the same, for step lists whose ids are unique.
C13_FaultByCauseForUniqueIds ==
  (rPc = "resolved" /\ UniqueStepIds(AsWorkflow(rSteps))) =>
    FaultOfResolve(rSteps, Get(rResolved))

\* a list with unique ids that has both a cycle and a dependency on an
\* unknown id has been resolved, and the error is the circular one
C13_Witness ==
  /\ rPc = "resolved"
  /\ UniqueStepIds(AsWorkflow(rSteps))
  /\ HasCycle(AsWorkflow(rSteps))
  /\ HasUnknownDependency(AsWorkflow(rSteps))
  /\ Get(rResolved).kind = "circular"

\* ------------------------------------------------------------------ C15

\* C15: when the workflow has a concurrency field, the wave the modular
\* runner launches holds at most max(1, workflow.concurrency) steps.
C15_WorkflowConcurrencyUsed ==
  (pc = "wave" /\ IsSome(workflow) /\ IsSome(Get(workflow).concurrency)) =>
    Len(wave) <= Max(1, Get(Get(workflow).concurrency))

\* ------------------------------------------------------------------ C16

\* the entries of the executions that completed before the adapter calls now
\* in flight started
EntriesBeforeCallsInFlight ==
  IF pc = "wave"
  THEN {manifest.execs[k] : k \in {j \in DOMAIN manifest.execs :
          \A i \in DOMAIN wave : wave[i].execId # manifest.execs[j].execId}}
  ELSE Range(manifest.execs)

\* C16: while an adapter call of the modular runner is in flight, the
\* manifest on disk contains the entry of every execution that completed
\* before that call started.
C16_EntryOnDiskBeforeNextCall ==
  pc \in {"gen", "wave", "check"} =>
    EntriesBeforeCallsInFlight \subseteq Range(manifestFile.execs)

\* =====================================================================
\* The one-file runner's executeWorkflow
\* =====================================================================

Step(id, dependsOn) == [id |-> id, goal |-> <<"g">>, dependsOn |-> dependsOn]

\* the step lists executeWorkflow is run on
CliStepLists ==
  {<<Step(NameAt(1), <<>>), Step(NameAt(2), <<>>), Step(NameAt(3), <<>>)>>,
   ExampleList,
   <<Step(NameAt(1), <<>>), Step(NameAt(2), <<<<"a", " ">>>>)>>,
   <<Step(NameAt(1), <<UnknownId>>), Step(NameAt(2), <<>>)>>,
   <<Step(NameAt(1), <<NameAt(2)>>), Step(NameAt(2), <<NameAt(1)>>)>>}

\* getDeps: the trimmed, non-empty dependsOn entries of the step byId holds
GetDeps(steps, stepId) ==
  IF stepId \notin DOMAIN ById(steps) THEN <<>>
  ELSE LET deps == ById(steps)[stepId].dependsOn
           trimmed == [i \in DOMAIN deps |-> Trim(deps[i])]
       IN  SelectSeq(trimmed, LAMBDA dep : dep # <<>>)

\* new Set(workflow.steps.map(s => s.id)): the ids in order of first occurrence
RemainingOf(steps) ==
  LET first == SelectSeq([i \in DOMAIN steps |-> i],
                         LAMBDA i : \A j \in 1 .. (i - 1) : steps[j].id # steps[i].id)
  IN  [k \in DOMAIN first |-> steps[first[k]].id]

\* the ready filter of the while loop
CliReady ==
  SelectSeq(cliRemaining, LAMBDA stepId :
    /\ stepId \notin cliRunning
    /\ Range(GetDeps(cliWorkflow.steps, stepId)) \subseteq cliCompleted)

\* workflow.concurrency ?? options.concurrency
CliEffectiveConcurrency ==
  IF IsSome(cliWorkflow.concurrency) THEN Get(cliWorkflow.concurrency) ELSE cliConcurrency

\* variant: a wave of one step whatever the concurrency
CliWaveOfOne(ready, concurrency, runningIds) == Take(ready, 1)

\* ready.slice(0, Math.max(1, slots))
CliWaveOf(ready, concurrency, runningIds) ==
  Take(ready, Max(1, Max(1, concurrency) - Cardinality(runningIds)))

CliInit ==
  /\ RunIdle
  /\ ResolverIdle
  /\ CapIdle
  /\ ParserIdle
  /\ ViewerIdle
  /\ LoopIdle
  /\ cliWorkflow \in [concurrency : {Null} \cup {Some(c) : c \in 0 .. MaxConc},
                    steps : CliStepLists]
  /\ cliConcurrency \in 1 .. MaxConc
  /\ cliPc = "loop"
  /\ cliRemaining = RemainingOf(cliWorkflow.steps)
  /\ cliCompleted = {}
  /\ cliRunning = {}
  /\ cliWave = <<>>
  /\ cliResults = EmptyMap
  /\ cliReturn = Null

\* no remaining step is ready: the stuck error is thrown
CliStuck ==
  /\ cliPc = "loop"
  /\ cliRemaining # <<>>
  /\ CliReady = <<>>
  /\ cliPc' = "thrown"
  /\ UNCHANGED <<cliWorkflow, cliConcurrency, cliRemaining, cliCompleted, cliRunning,
                 cliWave, cliResults, cliReturn, notCli>>

\* the wave is cut from the ready steps and each of its codexExec calls starts
CliLaunchWave ==
  /\ cliPc = "loop"
  /\ cliRemaining # <<>>
  /\ CliReady # <<>>
  /\ LET ids == CliWaveOf(CliReady, CliEffectiveConcurrency, cliRunning)
     IN  /\ cliRunning' = cliRunning \cup Range(ids)
         /\ cliWave' = [i \in DOMAIN ids |-> [stepId |-> ids[i], settled |-> FALSE, status |-> ""]]
  /\ cliPc' = "wave"
  /\ UNCHANGED <<cliWorkflow, cliConcurrency, cliRemaining, cliCompleted, cliResults,
                 cliReturn, notCli>>

\* the codexExec call of the wave's i-th step ends; a failure is caught into a result
CliStepSettles(i, status) ==
  /\ cliPc = "wave"
  /\ i \in DOMAIN cliWave
  /\ ~cliWave[i].settled
  /\ cliWave' = [cliWave EXCEPT ![i].settled = TRUE, ![i].status = status]
  /\ UNCHANGED <<cliWorkflow, cliConcurrency, cliPc, cliRemaining, cliCompleted, cliRunning,
                 cliResults, cliReturn, notCli>>

\* Promise.all resolves: results, completed, remaining and running are updated
CliJoinWave ==
  /\ cliPc = "wave"
  /\ \A i \in DOMAIN cliWave : cliWave[i].settled
  /\ LET ids == {cliWave[i].stepId : i \in DOMAIN cliWave}
     IN  /\ cliResults' = [id \in DOMAIN cliResults \cup ids |->
                             IF id \in ids
                             THEN cliWave[CHOOSE i \in DOMAIN cliWave : cliWave[i].stepId = id].status
                             ELSE cliResults[id]]
         /\ cliCompleted' = cliCompleted \cup ids
         /\ cliRemaining' = SelectSeq(cliRemaining, LAMBDA id : id \notin ids)
         /\ cliRunning' = cliRunning \ ids
  /\ cliWave' = <<>>
  /\ cliPc' = "loop"
  /\ UNCHANGED <<cliWorkflow, cliConcurrency, cliReturn, notCli>>

\* remaining is empty: one result per step of the workflow is returned
CliReturns ==
  /\ cliPc = "loop"
  /\ cliRemaining = <<>>
  /\ cliReturn' = Some([i \in DOMAIN cliWorkflow.steps |->
                          IF cliWorkflow.steps[i].id \in DOMAIN cliResults
                          THEN cliResults[cliWorkflow.steps[i].id]
                          ELSE "failed"])
  /\ cliPc' = "returned"
  /\ UNCHANGED <<cliWorkflow, cliConcurrency, cliRemaining, cliCompleted, cliRunning,
                 cliWave, cliResults, notCli>>

CliNext ==
  \/ CliStuck
  \/ CliLaunchWave
  \/ \E i \in 1 .. MaxSteps, status \in {"succeeded", "failed"} : CliStepSettles(i, status)
  \/ CliJoinWave
  \/ CliReturns

CliSpec == CliInit /\ [][CliNext]_<<vars, notRun>>

\* ------------------------------------------------------------------ C14

CliInFlight == Cardinality({i \in DOMAIN cliWave : ~cliWave[i].settled})
\* the ids of the steps whose execution has ended
CliFinished == cliCompleted \cup {cliWave[i].stepId : i \in {j \in DOMAIN cliWave : cliWave[j].settled}}
\* the remaining steps that have not been started and whose dependencies have all ended
CliStartable ==
  SelectSeq(cliRemaining, LAMBDA stepId :
    /\ stepId \notin cliRunning
    /\ Range(GetDeps(cliWorkflow.steps, stepId)) \subseteq CliFinished)

\* C14: while a step of executeWorkflow is in flight, no step that has not
\* been started and whose dependencies have all completed is kept waiting
\* when fewer than max(1, effectiveConcurrency) steps are in flight.
C14_RollingWindow ==
  (cliPc = "wave" /\ CliInFlight >= 1 /\ CliInFlight < Max(1, CliEffectiveConcurrency)) =>
    CliStartable = <<>>

\* =====================================================================
\* The one-file runner's capture context: manifest writes and graph index
\* =====================================================================

\* a Map in insertion order is a sequence of [key, value] records with
\* distinct keys
MapHas(m, key) == \E i \in DOMAIN m : m[i].key = key
\* Set.add on a Set kept in insertion order
SetAdd(set, x) == IF x \in Range(set) THEN set ELSE Append(set, x)
\* x ?? ""
OrEmpty(x) == IF IsSome(x) THEN Get(x) ELSE <<>>

\* the string literals of the graph helpers, and the thread ids, call id and
\* prompts of the transcripts
Str ==
  [bar |-> <<"|">>,
   exec |-> <<"e", "x", "e", "c", ":">>,
   thread |-> <<"t", "h", "r", "e", "a", "d", ":">>,
   transcript |-> <<"t", "r", "a", "n", "s", "c", "r", "i", "p", "t", "|">>,
   unknown |-> <<"u", "n", "k", "n", "o", "w", "n">>,
   spawn |-> <<"s", "p", "a", "w", "n">>,
   interact |-> <<"i", "n", "t", "e", "r", "a", "c", "t">>,
   dependsOn |-> <<"d", "e", "p", "e", "n", "d", "s", "O", "n">>,
   resume |-> <<"r", "e", "s", "u", "m", "e">>,
   invokes |-> <<"i", "n", "v", "o", "k", "e", "s">>,
   begin |-> <<"b", "e", "g", "i", "n">>,
   end |-> <<"e", "n", "d">>,
   notFound |-> <<"T", "r", "a", "n", "s", "c", "r", "i", "p", "t", " ", "n", "o", "t", " ", "f", "o", "u", "n", "d", " ", "f", "o", "r", " ", "t", "h", "r", "e", "a", "d", "I", "d", "=">>,
   scanFailed |-> <<"F", "a", "i", "l", "e", "d", " ", "t", "o", " ", "s", "c", "a", "n", " ", "t", "r", "a", "n", "s", "c", "r", "i", "p", "t", "s", " ", "f", "o", "r", " ", "t", "h", "r", "e", "a", "d", "I", "d", "=">>,
   parseFailed |-> <<"F", "a", "i", "l", "e", "d", " ", "t", "o", " ", "p", "a", "r", "s", "e", " ", "t", "r", "a", "n", "s", "c", "r", "i", "p", "t", " ", "f", "o", "r", " ", "t", "h", "r", "e", "a", "d", "I", "d", "=">>,
   collision |-> <<"T", "r", "a", "n", "s", "c", "r", "i", "p", "t", " ", "c", "a", "l", "l", "_", "i", "d", " ", "c", "o", "l", "l", "i", "s", "i", "o", "n", " ", "f", "o", "r", " ", "c", "a", "l", "l", "_", "i", "d", "=">>,
   error |-> <<":", " ", "E", "I", "O">>,
   saw |-> <<" ", "(", "s", "a", "w", " ">>,
   and |-> <<" ", "a", "n", "d", " ">>,
   paren |-> <<")">>,
   t1 |-> <<"t", "1">>,
   t2 |-> <<"t", "2">>,
   t3 |-> <<"t", "3">>,
   c1 |-> <<"c", "1">>,
   p1 |-> <<"p", "1">>,
   p2 |-> <<"p", "2">>]


Edge(type, from, to, callId, status, prompt, source) ==
  [type |-> type, from |-> from, to |-> to, callId |-> callId, status |-> status,
   prompt |-> prompt, source |-> source]

\* the key recordGraphEdge computes when it is given no dedupeKey
DefaultKey(edge) ==
  edge.type \o Str.bar \o edge.from \o Str.bar \o edge.to \o Str.bar \o OrEmpty(edge.callId) \o Str.bar
    \o OrEmpty(edge.status) \o Str.bar \o OrEmpty(edge.prompt)

\* variant: recordGraphEdge without the has test
RecordGraphEdgeAlways(g, edge, dedupeKey) ==
  LET key == IF IsSome(dedupeKey) THEN Get(dedupeKey) ELSE DefaultKey(edge)
  IN  [g EXCEPT !.edges = Append(@, [key |-> key, value |-> edge]),
                !.calls = Append(@, [key |-> key, value |-> edge])]

\* variant: recordGraphEdge that ignores the dedupeKey it is given
RecordGraphEdgeByDefaultKey(g, edge, dedupeKey) ==
  [g EXCEPT !.edges = IF MapHas(@, DefaultKey(edge)) THEN @
                      ELSE Append(@, [key |-> DefaultKey(edge), value |-> edge]),
            !.calls = Append(@, [key |-> DefaultKey(edge), value |-> edge])]

\* variant: recordGraphEdge without the has test on a Map: the last edge
\* recorded under a key replaces the stored one
RecordGraphEdgeLastWins(g, edge, dedupeKey) ==
  LET key == IF IsSome(dedupeKey) THEN Get(dedupeKey) ELSE DefaultKey(edge)
      entry == [key |-> key, value |-> edge]
  IN  [g EXCEPT !.edges = IF MapHas(@, key)
                          THEN [k \in DOMAIN @ |-> IF @[k].key = key THEN entry ELSE @[k]]
                          ELSE Append(@, entry),
                !.calls = Append(@, entry)]

\* recordGraphEdge
RecordGraphEdge(g, edge, dedupeKey) ==
  LET key == IF IsSome(dedupeKey) THEN Get(dedupeKey) ELSE DefaultKey(edge)
  IN  [g EXCEPT !.edges = IF MapHas(@, key) THEN @ ELSE Append(@, [key |-> key, value |-> edge]),
                !.calls = Append(@, [key |-> key, value |-> edge])]

\* variant: recordWarning that drops the message
RecordNoWarning(g, message) == g

\* recordWarning
RecordWarning(g, message) == [g EXCEPT !.warnings = SetAdd(@, message)]

\* recordExecGraphNode
RecordExecGraphNode(g, entry) ==
  LET nodeId == Str.exec \o entry.execId
      node == [id |-> nodeId, type |-> "exec", execId |-> entry.execId,
               threadId |-> entry.threadId]
      threadNodes == IF entry.threadId \in DOMAIN g.threadToExecNodes
                     THEN g.threadToExecNodes[entry.threadId] ELSE <<>>
  IN  [g EXCEPT
         !.nodes = IF MapHas(@, nodeId) THEN @ ELSE Append(@, [key |-> nodeId, value |-> node]),
         !.threadToExecNodes = IF nodeId \in Range(threadNodes) THEN @
                               ELSE MapSet(@, entry.threadId, Append(threadNodes, nodeId))]

\* variant: ensureThreadNode that adds no node
EnsureNoThreadNode(g, threadId) == g

\* ensureThreadNode: the graph index after the call; the id it returns is ThreadNodeId
ThreadNodeId(threadId) == Str.thread \o threadId
EnsureThreadNode(g, threadId) ==
  IF MapHas(g.nodes, ThreadNodeId(threadId)) THEN g
  ELSE [g EXCEPT !.nodes = Append(@, [key |-> ThreadNodeId(threadId),
                                      value |-> [id |-> ThreadNodeId(threadId), type |-> "thread",
                                                 execId |-> <<>>, threadId |-> threadId]])]

\* recordResumeEdge
RecordResumeEdge(g, resumeThreadId, entry) ==
  LET g1 == EnsureThreadNode(g, resumeThreadId)
  IN  RecordGraphEdge(g1, Edge(Str.resume, ThreadNodeId(resumeThreadId),
                               Str.exec \o entry.execId, Null, Null, Null, "resume"), Null)

\* the collab events of a transcript line; other lines are skipped by the parser
CollabEvent(evtType, sender, newThread, receiver, callId, prompt, status) ==
  [type |-> evtType, sender_thread_id |-> sender, new_thread_id |-> newThread,
   receiver_thread_id |-> receiver, call_id |-> callId, prompt |-> prompt, status |-> status]
IsCollabType(evtType) ==
  evtType \in {"collab_agent_spawn_begin", "collab_agent_spawn_end",
               "collab_agent_interaction_begin", "collab_agent_interaction_end"}
\* evtType.endsWith("_begin") and evtType.includes("spawn")
EndsWithBegin(evtType) == evtType \in {"collab_agent_spawn_begin", "collab_agent_interaction_begin"}
IncludesSpawn(evtType) == evtType \in {"collab_agent_spawn_begin", "collab_agent_spawn_end"}

\* the body of parseTranscript's loop for one parsed line
ParseLine(g, evt) ==
  IF ~IsCollabType(evt.type) THEN g
  ELSE
    LET senderThreadId == evt.sender_thread_id
        targetThreadId == IF evt.new_thread_id # <<>> THEN evt.new_thread_id
                          ELSE evt.receiver_thread_id
        callId == evt.call_id
        status == IF IsSome(evt.status) THEN Get(evt.status)
                  ELSE IF EndsWithBegin(evt.type) THEN Str.begin ELSE Str.end
        edgeType == IF IncludesSpawn(evt.type) THEN Str.spawn ELSE Str.interact
    IN  IF senderThreadId = <<>> \/ targetThreadId = <<>> THEN g
        ELSE
          LET g1 == EnsureThreadNode(EnsureThreadNode(g, senderThreadId), targetThreadId)
              callSignature == edgeType \o Str.bar \o senderThreadId \o Str.bar \o targetThreadId
                                 \o Str.bar \o status
              \* if (callId): an empty call id is skipped like a missing one
              g2 == IF OrEmpty(callId) = <<>> THEN g1
                    ELSE IF /\ Get(callId) \in DOMAIN g1.transcriptCallIds
                            /\ g1.transcriptCallIds[Get(callId)] # callSignature
                         THEN RecordWarning(g1, Str.collision \o Get(callId) \o Str.saw
                                \o g1.transcriptCallIds[Get(callId)] \o Str.and \o callSignature
                                \o Str.paren)
                         ELSE IF Get(callId) \notin DOMAIN g1.transcriptCallIds
                              THEN [g1 EXCEPT !.transcriptCallIds =
                                                 MapSet(@, Get(callId), callSignature)]
                              ELSE g1
              transcriptKey == edgeType \o Str.bar \o senderThreadId \o Str.bar \o targetThreadId
                                 \o Str.bar \o OrEmpty(callId) \o Str.bar \o status
          IN  RecordGraphEdge(g2, Edge(edgeType, ThreadNodeId(senderThreadId),
                                       ThreadNodeId(targetThreadId), callId, Some(status),
                                       evt.prompt, "transcript"),
                              Some(Str.transcript \o transcriptKey))

\* syncGraphToManifest
SyncGraphToManifest(m, g) ==
  [m EXCEPT !.graph = [nodes |-> [i \in DOMAIN g.nodes |-> g.nodes[i].value],
                       edges |-> [i \in DOMAIN g.edges |-> g.edges[i].value],
                       warnings |-> g.warnings]]

\* whether every write chained so far has completed
ChainSettled(chain) == \A i \in DOMAIN chain : chain[i].state = "done"

\* writeManifest up to its await: the graph is synced and a link is chained.
\* The link's callback, which serializes the manifest and starts writeFile,
\* runs once the link before it has completed: at once when there is none.
WriteManifestCall(m, g, chain) ==
  LET synced == SyncGraphToManifest(m, g)
  IN  [manifest |-> synced,
       chain |-> Append(chain, IF ChainSettled(chain)
                               THEN [state |-> "writing", content |-> Some(synced)]
                               ELSE [state |-> "pending", content |-> Null])]

\* the collab events of the transcript found for a thread
TranscriptOf(threadId) ==
  IF threadId = Str.t1
  THEN <<CollabEvent("collab_agent_spawn_begin", Str.t1, Str.t2, <<>>, Some(Str.c1), Some(Str.p1), Null),
         CollabEvent("collab_agent_spawn_begin", Str.t1, Str.t2, <<>>, Some(Str.c1), Some(Str.p2), Null),
         CollabEvent("collab_agent_interaction_end", Str.t1, <<>>, Str.t2, Some(Str.c1), Null, Null),
         CollabEvent("collab_agent_interaction_end", <<>>, <<>>, Str.t2, Null, Null, Null)>>
  ELSE IF threadId = Str.t2
  THEN <<CollabEvent("collab_agent_interaction_begin", Str.t2, <<>>, Str.t1, Null, Some(Str.p1), Null)>>
  ELSE <<>>

\* the number of transcript lines a parse reads at most
MaxEvents == 3
LinesOf(threadId) == Take(TranscriptOf(threadId), MaxEvents)

\* a codexExec call in flight: the thread id its events report ("" when none)
\* and its resumeThreadId
Exec(threadId, resume, status) ==
  [threadId |-> threadId, resume |-> resume, status |-> status, pc |-> "running",
   pos |-> 0, call |-> 0]

\* the sets of codexExec calls in flight together
CapScenarios ==
  {<<Exec(<<>>, Null, "failed"), Exec(Str.t3, Some(Str.t3), "succeeded"), Exec(Str.t2, Null, "succeeded")>>,
   <<Exec(Str.t1, Null, "succeeded"), Exec(Str.t1, Some(Str.t1), "failed")>>}


ManifestEntry(e, p) ==
  [execId |-> ExecIdOf(e), threadId |-> IF p.threadId = <<>> THEN Str.unknown ELSE p.threadId,
   status |-> p.status]

\* variant: enrichGraphFromTranscript without its test of transcriptThreads
NeverProcessed(g, threadId) == FALSE

\* graphIndex.transcriptThreads.has(threadId)
AlreadyProcessed(g, threadId) == threadId \in g.transcriptThreads

CapInit ==
  /\ RunIdle
  /\ ResolverIdle
  /\ CliIdle
  /\ ParserIdle
  /\ ViewerIdle
  /\ LoopIdle
  /\ runManifest = EmptyManifest
  /\ graphIndex = EmptyGraphIndex
  /\ manifestWrite = <<>>
  /\ capFile = EmptyManifest
  /\ capProcs \in CapScenarios
  /\ capRounds = 0
  /\ capLastCall = Null
  /\ capStarted = <<>>
  /\ capLookups = <<>>
  /\ capEnrichLog = <<>>

\* await writeManifest(captureContext) of call e, on manifest m and graph index g
CallsWriteManifest(e, m, g) ==
  LET w == WriteManifestCall(m, g, manifestWrite) IN
  /\ runManifest' = w.manifest
  /\ graphIndex' = g
  /\ manifestWrite' = w.chain
  /\ capLastCall' = Some(w.manifest)
  /\ capStarted' = IF w.chain[Len(w.chain)].state = "writing"
                   THEN Append(capStarted, Len(w.chain)) ELSE capStarted
  /\ capProcs' = [capProcs EXCEPT ![e].pc = "called", ![e].call = Len(w.chain)]

\* the child of call e has exited: the entry is pushed, the exec node and the
\* resume edge are recorded and enrichGraphFromTranscript is called; unless it
\* starts a transcript lookup, writeManifest is called
ExecFinishes(e) ==
  /\ e \in DOMAIN capProcs
  /\ capProcs[e].pc = "running"
  /\ LET p == capProcs[e]
         entry == ManifestEntry(e, p)
         m1 == [runManifest EXCEPT !.execs = Append(@, entry)]
         g1 == RecordExecGraphNode(graphIndex, entry)
         g2 == IF IsSome(p.resume) THEN RecordResumeEdge(g1, Get(p.resume), entry) ELSE g1
         logged == [exec |-> e, threadId |-> p.threadId,
                    repeat |-> p.threadId \in g2.transcriptThreads,
                    outcome |-> IF p.threadId \in g2.transcriptThreads
                                THEN "repeat" ELSE "pending"]
     IN  IF p.threadId = <<>>
         THEN /\ CallsWriteManifest(e, m1, g2)
              /\ UNCHANGED <<capLookups, capEnrichLog>>
         ELSE IF AlreadyProcessed(g2, p.threadId)
         THEN /\ CallsWriteManifest(e, m1, g2)
              /\ capEnrichLog' = Append(capEnrichLog, logged)
              /\ UNCHANGED capLookups
         ELSE /\ runManifest' = m1
              /\ graphIndex' = [g2 EXCEPT !.transcriptThreads = @ \cup {p.threadId}]
              /\ capProcs' = [capProcs EXCEPT ![e].pc = "lookup"]
              /\ capLookups' = Append(capLookups, p.threadId)
              /\ capEnrichLog' = Append(capEnrichLog, logged)
              /\ UNCHANGED <<manifestWrite, capLastCall, capStarted>>
  /\ UNCHANGED <<capFile, capRounds, notCap>>

\* the log of enrichGraphFromTranscript with the outcome of the call made for
\* execution e
EnrichLogged(e, outcome) ==
  [i \in DOMAIN capEnrichLog |->
     IF capEnrichLog[i].exec = e THEN [capEnrichLog[i] EXCEPT !.outcome = outcome]
     ELSE capEnrichLog[i]]

\* findTranscriptPath of call e settles
LookupReturns(e, outcome) ==
  /\ e \in DOMAIN capProcs
  /\ capProcs[e].pc = "lookup"
  /\ LET threadId == capProcs[e].threadId IN
       CASE outcome = "found" ->
              /\ capProcs' = [capProcs EXCEPT ![e].pc = "parse"]
              /\ UNCHANGED <<runManifest, graphIndex, manifestWrite, capLastCall, capStarted>>
         [] outcome = "missing" ->
              CallsWriteManifest(e, runManifest,
                                 RecordWarning(graphIndex, Str.notFound \o threadId))
         [] outcome = "throws" ->
              CallsWriteManifest(e, runManifest,
                                 RecordWarning(graphIndex, Str.scanFailed \o threadId \o Str.error))
  /\ capEnrichLog' = EnrichLogged(e, outcome)
  /\ UNCHANGED <<capFile, capRounds, capLookups, notCap>>

\* parseTranscript of call e reads its next line
ParseNextLine(e) ==
  /\ e \in DOMAIN capProcs
  /\ capProcs[e].pc = "parse"
  /\ capProcs[e].pos < Len(LinesOf(capProcs[e].threadId))
  /\ graphIndex' = ParseLine(graphIndex, LinesOf(capProcs[e].threadId)[capProcs[e].pos + 1])
  /\ capProcs' = [capProcs EXCEPT ![e].pos = @ + 1]
  /\ UNCHANGED <<runManifest, manifestWrite, capFile, capRounds, capLastCall, capStarted,
                 capLookups, capEnrichLog, notCap>>

\* parseTranscript of call e ends, at the end of the file or with a read
\* error, and writeManifest is called
ParseEnds(e, ok) ==
  /\ e \in DOMAIN capProcs
  /\ capProcs[e].pc = "parse"
  /\ ok => capProcs[e].pos = Len(LinesOf(capProcs[e].threadId))
  /\ CallsWriteManifest(e, runManifest,
                        IF ok THEN graphIndex
                        ELSE RecordWarning(graphIndex, Str.parseFailed \o capProcs[e].threadId
                                                         \o Str.error))
  /\ capEnrichLog' = EnrichLogged(e, IF ok THEN "parsed" ELSE "parseFailed")
  /\ UNCHANGED <<capFile, capRounds, capLookups, notCap>>

\* the writeFile of link k resolves; the callback of the next link serializes
\* the manifest as it is now and starts its writeFile
WriteCompletes(k) ==
  /\ k \in DOMAIN manifestWrite
  /\ manifestWrite[k].state = "writing"
  /\ capFile' = Get(manifestWrite[k].content)
  /\ LET done == [manifestWrite EXCEPT ![k].state = "done"]
         next == {j \in DOMAIN done : done[j].state = "pending" /\
                                      \A i \in 1 .. (j - 1) : done[i].state = "done"}
     IN  /\ manifestWrite' = [j \in DOMAIN done |->
                                IF j \in next
                                THEN [state |-> "writing", content |-> Some(runManifest)]
                                ELSE done[j]]
         /\ capStarted' = IF next = {} THEN capStarted
                          ELSE Append(capStarted, CHOOSE j \in next : TRUE)
  /\ UNCHANGED <<runManifest, graphIndex, capProcs, capRounds, capLastCall, capLookups,
                 capEnrichLog, notCap>>

\* whether codexExec call e has returned or thrown: its write has completed
ExecReturned(e) ==
  /\ capProcs[e].pc = "called"
  /\ manifestWrite[capProcs[e].call].state = "done"

\* the recordGraphEdge calls of recordWorkflowDependsOnEdges, in loop order
RECURSIVE RecordAll(_, _)
RecordAll(g, toRecord) ==
  IF toRecord = <<>> THEN g
  ELSE RecordAll(RecordGraphEdge(g, Head(toRecord), Null), Tail(toRecord))

\* recordWorkflowDependsOnEdges for the workflow whose i-th step was executed by
\* call i and whose second step has the given dependsOn list
RecordWorkflowDependsOnEdges(dependsOn) ==
  /\ capRounds < 2
  /\ \A e \in DOMAIN capProcs : ExecReturned(e)
  /\ LET execByStep == [i \in DOMAIN capProcs |-> Str.exec \o ExecIdOf(i)]
         known == SelectSeq(dependsOn, LAMBDA dep : \E i \in DOMAIN capProcs : NameAt(i) = dep)
         toRecord == [k \in DOMAIN known |->
                        Edge(Str.dependsOn,
                             execByStep[CHOOSE i \in DOMAIN capProcs : NameAt(i) = known[k]],
                             execByStep[2], Null, Null, Null, "workflow")]
     IN  graphIndex' = RecordAll(graphIndex, toRecord)
  /\ capRounds' = capRounds + 1
  /\ UNCHANGED <<runManifest, manifestWrite, capFile, capProcs, capLastCall, capStarted,
                 capLookups, capEnrichLog, notCap>>

CapNext ==
  \/ \E e \in DOMAIN capProcs : ExecFinishes(e)
  \/ \E e \in DOMAIN capProcs, outcome \in {"found", "missing", "throws"} :
       LookupReturns(e, outcome)
  \/ \E e \in DOMAIN capProcs : ParseNextLine(e)
  \/ \E e \in DOMAIN capProcs, ok \in BOOLEAN : ParseEnds(e, ok)
  \/ \E k \in DOMAIN manifestWrite : WriteCompletes(k)
  \/ \E dependsOn \in {<<>>, <<NameAt(1)>>, <<NameAt(1), NameAt(1)>>} :
       RecordWorkflowDependsOnEdges(dependsOn)

CapSpec == CapInit /\ [][CapNext]_<<vars, notRun>>

\* ------------------------------------------------------------------ C17

\* the writes have started in the order of the writeManifest calls
WritesInCallOrder == capStarted = [i \in DOMAIN capStarted |-> i]
\* at most one writeFile of the manifest is in flight
NoOverlappingWrites == Cardinality({k \in DOMAIN manifestWrite : manifestWrite[k].state = "writing"}) <= 1
\* once every write has completed, the file holds the manifest as of the last call
FileIsLastCall ==
  (manifestWrite # <<>> /\ ChainSettled(manifestWrite)) => capFile = Get(capLastCall)

\* C17: the manifest writes of concurrently finishing executions start in
\* the order of their writeManifest calls and never overlap, and once all
\* pending writes have completed the file holds the manifest state as of the
\* last call.
C17_SerializedWrites == WritesInCallOrder /\ NoOverlappingWrites /\ FileIsLastCall

\* ------------------------------------------------------------------ C18

\* the calls that were the first with their key, in call order
FirstByKey(recorded) ==
  KeepPositions(recorded, {i \in DOMAIN recorded :
                             \A j \in 1 .. (i - 1) : recorded[j].key # recorded[i].key})

\* C18: after any sequence of recordGraphEdge calls the graph index holds
\* no two edges under the same key, and a call whose key was already
\* present has left the stored edges unchanged: the edges stored are those
\* of the first call of each key, in call order.
C18_OneEdgePerKey ==
  /\ \A i, j \in DOMAIN graphIndex.edges :
       graphIndex.edges[i].key = graphIndex.edges[j].key => i = j
  /\ graphIndex.edges = FirstByKey(graphIndex.calls)

\* workflow, resume and transcript edges have been recorded, some of them
\* under a key that was already present
C18_Witness ==
  /\ {"workflow", "resume", "transcript"} \subseteq
       {graphIndex.calls[i].value.source : i \in DOMAIN graphIndex.calls}
  /\ Len(graphIndex.calls) >= Len(graphIndex.edges) + 2

\* ------------------------------------------------------------------ C20

SameButPrompt(e1, e2) ==
  /\ e1.type = e2.type
  /\ e1.from = e2.from
  /\ e1.to = e2.to
  /\ e1.callId = e2.callId
  /\ e1.status = e2.status

\* C20: the graph index stores no two edges that are identical in type,
\* from, to, callId and status: edges recorded with these five equal and
\* different prompts are one stored edge.
C20_PromptNotInIdentity ==
  \A i, j \in DOMAIN graphIndex.edges :
    SameButPrompt(graphIndex.edges[i].value, graphIndex.edges[j].value) => i = j

\* two edges that differ in their prompt only have been recorded
C20_Witness ==
  \E i, j \in DOMAIN graphIndex.calls :
    /\ SameButPrompt(graphIndex.calls[i].value, graphIndex.calls[j].value)
    /\ graphIndex.calls[i].value.prompt # graphIndex.calls[j].value.prompt

\* ------------------------------------------------------------------ C19

\* the calls of enrichGraphFromTranscript for a thread that an earlier call
\* had already processed
RepeatCalls == {i \in DOMAIN capEnrichLog : capEnrichLog[i].repeat}

\* a repeated call has returned at once: it neither looks up nor parses a
\* transcript, and no thread is looked up twice
RepeatReturnsAtOnce ==
  /\ \A i \in RepeatCalls : capProcs[capEnrichLog[i].exec].pc = "called"
  /\ NoDuplicates(capLookups)

\* the step of a repeated call adds no warning, no edge but the resume edge
\* of its own execution and no node but those of its own execution and of
\* the thread it resumes
RepeatStep ==
  (Len(capEnrichLog') = Len(capEnrichLog) + 1 /\ capEnrichLog'[Len(capEnrichLog')].repeat) =>
    LET e == capEnrichLog'[Len(capEnrichLog')].exec
        own == Str.exec \o ExecIdOf(e)
    IN  /\ graphIndex'.warnings = graphIndex.warnings
        /\ capLookups' = capLookups
        /\ \A i \in DOMAIN graphIndex'.edges :
             i > Len(graphIndex.edges) =>
               /\ graphIndex'.edges[i].value.source = "resume"
               /\ graphIndex'.edges[i].value.to = own
        /\ Take(graphIndex'.edges, Len(graphIndex.edges)) = graphIndex.edges
        /\ \A i \in DOMAIN graphIndex'.nodes :
             i > Len(graphIndex.nodes) =>
               graphIndex'.nodes[i].key \in
                 (IF IsSome(capProcs[e].resume)
                  THEN {own, ThreadNodeId(Get(capProcs[e].resume))} ELSE {own})
        /\ Take(graphIndex'.nodes, Len(graphIndex.nodes)) = graphIndex.nodes

\* C19: a call of enrichGraphFromTranscript for a thread id already
\* processed in this run returns at once and changes neither nodes, edges
\* nor warnings, whatever became of the first call, and the transcript of a
\* thread is looked up at most once per run.
C19_RepeatEnrichIsNoOp == []RepeatReturnsAtOnce /\ [][RepeatStep]_capVars

\* enrichGraphFromTranscript has been called again for a thread whose
\* transcript the first call found and parsed with a read error at the end
C19_Witness ==
  /\ RepeatCalls # {}
  /\ \E e \in DOMAIN capProcs : capProcs[e].pc = "called" /\ capProcs[e].pos >= 2
  /\ \E i \in DOMAIN graphIndex.warnings :
       Take(graphIndex.warnings[i], Len(Str.parseFailed)) = Str.parseFailed

\* ------------------------------------------------------------------ C21

\* what codexExec does after its writeManifest: it throws for a fatal error,
\* a non-zero exit code or a missing thread id, and returns otherwise
CodexExecResult(p) ==
  IF p.status = "failed" THEN "throws"
  ELSE IF p.threadId = <<>> THEN "throws"
  ELSE "returns"

\* the calls of enrichGraphFromTranscript whose lookup or parse failed
FailedEnrichments ==
  {i \in DOMAIN capEnrichLog : capEnrichLog[i].outcome \in {"missing", "throws", "parseFailed"}}

\* the warning enrichGraphFromTranscript records for a failure
WarningFor(outcome, threadId) ==
  CASE outcome = "missing" -> Str.notFound \o threadId
    [] outcome = "throws" -> Str.scanFailed \o threadId \o Str.error
    [] outcome = "parseFailed" -> Str.parseFailed \o threadId \o Str.error

\* C21: when the transcript of a thread is missing, cannot be scanned or
\* fails while being parsed, enrichGraphFromTranscript has added its warning
\* to the graph's warnings and has returned to codexExec, which has gone on
\* to writeManifest; the manifest still holds one entry for each execution
\* finished, with the thread id and status of the execution itself, and the
\* execution ends as its own status says.
C21_EnrichFailureIsWarning ==
  \A i \in FailedEnrichments :
    LET e == capEnrichLog[i].exec
        p == capProcs[e]
    IN  /\ WarningFor(capEnrichLog[i].outcome, p.threadId) \in Range(graphIndex.warnings)
        /\ p.pc = "called"
        /\ Cardinality({k \in DOMAIN runManifest.execs :
                          runManifest.execs[k] = ManifestEntry(e, p)}) = 1
        /\ Len(runManifest.execs) = Cardinality({x \in DOMAIN capProcs : capProcs[x].pc # "running"})
        /\ ExecReturned(e) =>
             (CodexExecResult(p) = "returns" <=> runManifest.execs[
                CHOOSE k \in DOMAIN runManifest.execs : runManifest.execs[k].execId = ExecIdOf(e)
              ].status = "succeeded")

\* a succeeded execution whose transcript was missing and another whose
\* transcript failed while being parsed have both returned
C21_Witness ==
  /\ \E i, j \in FailedEnrichments :
       /\ capEnrichLog[i].outcome = "missing"
       /\ capEnrichLog[j].outcome = "parseFailed"
       /\ ExecReturned(capEnrichLog[i].exec)
       /\ ExecReturned(capEnrichLog[j].exec)
       /\ CodexExecResult(capProcs[capEnrichLog[i].exec]) = "returns"

\* ------------------------------------------------------------------ C22

\* the exec nodes recorded for a thread
ExecNodesOf(g, threadId) ==
  IF threadId \in DOMAIN g.threadToExecNodes THEN g.threadToExecNodes[threadId] ELSE <<>>

StartsWith(text, prefix) == Len(text) >= Len(prefix) /\ Take(text, Len(prefix)) = prefix

\* a node id of the form thread:<id> whose node is a thread node of the graph
IsThreadNodeOf(g, nodeId) ==
  /\ StartsWith(nodeId, Str.thread)
  /\ ~StartsWith(nodeId, Str.exec)
  /\ \E i \in DOMAIN g.nodes :
       /\ g.nodes[i].key = nodeId
       /\ g.nodes[i].value.type = "thread"
       /\ g.nodes[i].value.id = nodeId

TranscriptEdges(g) == {i \in DOMAIN g.edges : g.edges[i].value.source = "transcript"}

\* C22: every edge with source transcript has from and to of the form
\* thread:<id>, never exec:<id>, also when the thread has exactly one exec
\* node, and both endpoints are thread nodes of the graph.
C22_TranscriptEdgesJoinThreads ==
  \A i \in TranscriptEdges(graphIndex) :
    /\ IsThreadNodeOf(graphIndex, graphIndex.edges[i].value.from)
    /\ IsThreadNodeOf(graphIndex, graphIndex.edges[i].value.to)

\* a transcript edge leaves a thread that has exactly one exec node
C22_Witness ==
  \E i \in TranscriptEdges(graphIndex) :
    \E t \in DOMAIN graphIndex.threadToExecNodes :
      /\ graphIndex.edges[i].value.from = ThreadNodeId(t)
      /\ Len(ExecNodesOf(graphIndex, t)) = 1

\* ------------------------------------------------------------------ C23

\* nodeIdForThread: the id it returns (no caller in the runner)
NodeIdForThread(g, threadId) ==
  IF Len(ExecNodesOf(g, threadId)) = 1 THEN ExecNodesOf(g, threadId)[1]
  ELSE ThreadNodeId(threadId)

\* the threads the graph knows of, by an exec node or by a thread node
ThreadsOf(g) ==
  DOMAIN g.threadToExecNodes \cup {g.nodes[i].value.threadId : i \in DOMAIN g.nodes}

\* the node ids the edges name
EndpointsOf(g) ==
  {g.edges[i].value.from : i \in DOMAIN g.edges} \cup {g.edges[i].value.to : i \in DOMAIN g.edges}

\* C23: in every reachable graph a thread with exactly one exec node has no
\* thread:<id> node and no edge names thread:<id> for it, so that the only
\* thread node ids found in the graph are those nodeIdForThread computes:
\* of threads with zero or with two or more exec nodes.
C23_OneExecThreadsCollapsed ==
  \A t \in ThreadsOf(graphIndex) :
    (ThreadNodeId(t) \in EndpointsOf(graphIndex) \/ MapHas(graphIndex.nodes, ThreadNodeId(t)))
      => NodeIdForThread(graphIndex, t) = ThreadNodeId(t)

\* ------------------------------------------------------------------ C24

\* the completion checks whose output held no parseable JSON
UnparseableAnswers == {k \in DOMAIN answers : answers[k].text = Some(GarbageText)}

ParseMessages ==
  {"Invalid JSON: could not parse workflow", "Workflow.version must be 1",
   "Workflow.id must be a non-empty string", "Workflow.steps must be an array",
   "Step has unsupported type", "Step is missing goal"}

\* C25: when the generator's output does not parse to a valid workflow,
\* the exception carries the parse message and run() returns status error
\* with it; the generation call is the last adapter call of the run, the
\* only one of its iteration, so that the generator is not called again
\* and no step or completion check runs in that iteration; and the exec
\* entry of that call is in the manifest, in memory and on disk.
C25_BadWorkflowEndsRun ==
  "generation-parse" \in faults =>
    LET last == calls[Len(calls)] IN
    /\ pc \in {"catch", "returned"}
    /\ IsSome(thrown) /\ Get(thrown) \in ParseMessages
    /\ faults = {"generation-parse"}
    /\ last.kind = "workflow-gen"
    /\ last.iteration = iteration
    /\ {k \in DOMAIN calls : calls[k].iteration = iteration} = {Len(calls)}
    /\ \E i \in DOMAIN manifest.execs :
         /\ manifest.execs[i].execId = last.execId
         /\ manifest.execs[i].label = WorkflowGenLabel(iteration)
         /\ i \in DOMAIN manifestFile.execs
         /\ manifestFile.execs[i] = manifest.execs[i]
    /\ HasReturned =>
         /\ Get(result).status = "error"
         /\ Get(result).error = thrown
         /\ manifestFile = manifest

\* a run ended by a workflow of version 2, generated in its second
\* iteration
C25_Witness ==
  /\ HasReturned
  /\ "generation-parse" \in faults
  /\ Get(result).error = Some("Workflow.version must be 1")
  /\ iteration = 2
  /\ Len(manifestFile.execs) >= 3

\* ------------------------------------------------------------------ C26

\* C26: when the adapter call of a workflow generation or of a completion
\* check has thrown, the manifest holds an exec entry with status failed
\* for that call, from the moment the exception is raised on.
C26_FailedCallRecorded ==
  (faults \cap {"generation-adapter", "review-adapter"} # {}) =>
    \E i \in DOMAIN manifest.execs :
      /\ manifest.execs[i].execId = calls[Len(calls)].execId
      /\ manifest.execs[i].status = "failed"

\* ------------------------------------------------------------------ C27

\* C27: whatever maxIterations and concurrency are configured, run() has
\* generated a workflow (it has executed an iteration) by the time it
\* returns, every wave it launches holds at least one step, and the
\* concurrency of a workflow parsed from JSON is at least 1.
C27_FlooredAtOne ==
  /\ HasReturned => CallsOfKind("workflow-gen") # {}
  /\ pc = "wave" => Len(wave) >= 1
  /\ (IsSome(workflow) /\ IsSome(Get(workflow).concurrency)) =>
       Get(Get(workflow).concurrency) >= 1

\* ------------------------------------------------- parseWorkflow on texts

\* A text is a sequence of tokens: the punctuation of JSON, a JSON literal (a
\* string in its quotes, a number, null), a blank " " or a word of prose "x".

\* the string literals the texts use, with their contents
StringTokens ==
  "\"version\"" :> "version" @@ "\"id\"" :> "id" @@ "\"steps\"" :> "steps" @@
  "\"type\"" :> "type" @@ "\"goal\"" :> "goal" @@ "\"concurrency\"" :> "concurrency" @@
  "\"dependsOn\"" :> "dependsOn" @@ "\"agent.run\"" :> "agent.run" @@
  "\"shell\"" :> "shell" @@ "\"w1\"" :> "w1" @@ "\"a\"" :> "a" @@ "\"g\"" :> "g" @@
  "\" \"" :> " " @@ "\"\"" :> ""
NumberTokens == "0" :> 0 @@ "1" :> 1 @@ "2" :> 2

\* the characters of a string's contents
Chars(content) ==
  CASE content = "w1" -> <<"w", "1">>
    [] content = "agent.run" -> <<"a", "g", "e", "n", "t", ".", "r", "u", "n">>
    [] content = "shell" -> <<"s", "h", "e", "l", "l">>
    [] content = "" -> <<>>
    [] OTHER -> <<content>>

IsLiteral(token) == token \in DOMAIN StringTokens \cup DOMAIN NumberTokens \cup {"null"}
LiteralOf(token) ==
  IF token \in DOMAIN StringTokens THEN [tag |-> "str", s |-> StringTokens[token]]
  ELSE IF token \in DOMAIN NumberTokens THEN [tag |-> "num", n |-> NumberTokens[token]]
  ELSE [tag |-> "null"]

NoParse == [ok |-> FALSE, value |-> [tag |-> "null"], next |-> 0]
Parsed(value, next) == [ok |-> TRUE, value |-> value, next |-> next]

\* JSON.parse by recursive descent: the value that starts at position i and
\* the position after it
RECURSIVE ParseValue(_, _), ParseItems(_, _, _), ParseMembers(_, _, _)
ParseValue(toks, i) ==
  IF i > Len(toks) THEN NoParse
  ELSE IF IsLiteral(toks[i]) THEN Parsed(LiteralOf(toks[i]), i + 1)
  ELSE IF toks[i] = "["
  THEN IF i + 1 <= Len(toks) /\ toks[i + 1] = "]"
       THEN Parsed([tag |-> "arr", items |-> <<>>], i + 2)
       ELSE ParseItems(toks, i + 1, <<>>)
  ELSE IF toks[i] = "{"
  THEN IF i + 1 <= Len(toks) /\ toks[i + 1] = "}"
       THEN Parsed([tag |-> "obj", members |-> <<>>], i + 2)
       ELSE ParseMembers(toks, i + 1, <<>>)
  ELSE NoParse

ParseItems(toks, i, items) ==
  LET v == ParseValue(toks, i) IN
    IF ~v.ok \/ v.next > Len(toks) THEN NoParse
    ELSE IF toks[v.next] = "," THEN ParseItems(toks, v.next + 1, Append(items, v.value))
    ELSE IF toks[v.next] = "]"
    THEN Parsed([tag |-> "arr", items |-> Append(items, v.value)], v.next + 1)
    ELSE NoParse

ParseMembers(toks, i, members) ==
  IF i + 1 > Len(toks) \/ toks[i] \notin DOMAIN StringTokens \/ toks[i + 1] # ":"
  THEN NoParse
  ELSE LET v == ParseValue(toks, i + 2)
           more == Append(members, [key |-> StringTokens[toks[i]], value |-> v.value])
       IN  IF ~v.ok \/ v.next > Len(toks) THEN NoParse
           ELSE IF toks[v.next] = "," THEN ParseMembers(toks, v.next + 1, more)
           ELSE IF toks[v.next] = "}"
           THEN Parsed([tag |-> "obj", members |-> more], v.next + 1)
           ELSE NoParse

\* JSON.parse: the value of the whole text, Null where JSON.parse throws;
\* blanks between tokens are skipped
JsonParse(text) ==
  LET toks == SelectSeq(text, LAMBDA c : c # " ")
      r == ParseValue(toks, 1)
  IN  IF r.ok /\ r.next = Len(toks) + 1 THEN Some(r.value) ELSE Null

\* indexOf and lastIndexOf, 1-based: 0 where the source has -1
FirstIndexOf(text, c) ==
  IF \E i \in DOMAIN text : text[i] = c
  THEN CHOOSE i \in DOMAIN text : text[i] = c /\ \A j \in 1 .. i - 1 : text[j] # c
  ELSE 0
LastIndexOf(text, c) ==
  IF \E i \in DOMAIN text : text[i] = c
  THEN CHOOSE i \in DOMAIN text : text[i] = c /\ \A j \in i + 1 .. Len(text) : text[j] # c
  ELSE 0

\* safeJsonParse on a text of tokens
SafeJsonParseText(text) ==
  LET trimmed == Trim(text)
      whole == JsonParse(trimmed)
      start == FirstIndexOf(trimmed, "{")
      end == LastIndexOf(trimmed, "}")
  IN  IF trimmed = <<>> THEN Null
      ELSE IF IsSome(whole) THEN whole
      ELSE IF start = 0 \/ end = 0 \/ end <= start THEN Null
      ELSE JsonParse(SubSeq(trimmed, start, end))

\* !value for the values of the texts: null, 0 and ""
Falsy(value) ==
  \/ value.tag = "null"
  \/ value.tag = "num" /\ value.n = 0
  \/ value.tag = "str" /\ value.s = ""

\* typeof value === "object" (arrays included) and not null
IsObjectValue(value) == value.tag \in {"obj", "arr"}

\* obj[key]: the value of the last member with the key, Null for undefined
Field(value, key) ==
  LET hits == IF value.tag = "obj"
              THEN {i \in DOMAIN value.members : value.members[i].key = key}
              ELSE {}
  IN  IF hits = {} THEN Null
      ELSE Some(value.members[CHOOSE i \in hits : \A j \in hits : j <= i].value)

IsTagged(field, tag) == IsSome(field) /\ Get(field).tag = tag

\* typeof x === "string" ? x : "", as characters
StringOf(field) == IF IsTagged(field, "str") THEN Chars(Get(field).s) ELSE <<>>

\* String(dep) for the strings, numbers and null a dependsOn array may hold
DepString(value) ==
  CASE value.tag = "str" -> Chars(value.s)
    [] value.tag = "num" -> Digits(value.n)
    [] OTHER -> <<"n", "u", "l", "l">>

\* the properties normalizeStep reads from a step that is an object
RawStepOf(item) ==
  [id |-> StringOf(Field(item, "id")),
   type |-> IF IsTagged(Field(item, "type"), "str") THEN Get(Field(item, "type")).s
            ELSE "undefined",
   goal |-> StringOf(Field(item, "goal")),
   dependsOn |-> IF IsTagged(Field(item, "dependsOn"), "arr")
                 THEN LET deps == Get(Field(item, "dependsOn")).items
                      IN  [i \in DOMAIN deps |-> DepString(deps[i])]
                 ELSE <<>>]

\* normalizeWorkflow on a parsed value: the object test, the properties it
\* reads (a version that is no number is written 0), and the steps up to the
\* first one that is no object
NormalizeValue(value) ==
  IF ~IsObjectValue(value) THEN Err("Workflow must be an object")
  ELSE LET steps == Field(value, "steps")
           items == IF IsTagged(steps, "arr") THEN Get(steps).items ELSE <<>>
           nonObjects == {i \in DOMAIN items : ~IsObjectValue(items[i])}
           firstBad == IF nonObjects = {} THEN Len(items) + 1
                       ELSE CHOOSE i \in nonObjects : \A j \in nonObjects : i <= j
           r == NormalizeWorkflow(
                  [version |-> IF IsTagged(Field(value, "version"), "num")
                               THEN Get(Field(value, "version")).n ELSE 0,
                   id |-> StringOf(Field(value, "id")),
                   concurrency |-> IF IsTagged(Field(value, "concurrency"), "num")
                                   THEN Some(Get(Field(value, "concurrency")).n)
                                   ELSE Null,
                   steps |-> [isArray |-> IsTagged(steps, "arr"),
                              items |-> [i \in 1 .. firstBad - 1 |->
                                           RawStepOf(items[i])]]])
       IN  IF ~r.ok \/ nonObjects = {} THEN r ELSE Err("Step must be an object")

\* parseWorkflow on a text of tokens
ParseWorkflowText(text) ==
  LET parsed == SafeJsonParseText(text) IN
    IF ~IsSome(parsed) \/ Falsy(Get(parsed))
    THEN Err("Invalid JSON: could not parse workflow")
    ELSE NormalizeValue(Get(parsed))

\* ---- the texts

RECURSIVE Listed(_)
Listed(parts) ==
  IF parts = <<>> THEN <<>>
  ELSE IF Len(parts) = 1 THEN parts[1]
  ELSE parts[1] \o <<",">> \o Listed(Tail(parts))
ObjectText(members) == <<"{">> \o Listed(members) \o <<"}">>
ArrayText(items) == <<"[">> \o Listed(items) \o <<"]">>
MemberText(key, valueText) == <<key, ":">> \o valueText

StepText(members) ==
  ObjectText(<<MemberText("\"id\"", <<"\"a\"">>)>> \o members)
TypeMember(type) == MemberText("\"type\"", <<type>>)
GoalMember(goal) == MemberText("\"goal\"", <<goal>>)
GoodStep == StepText(<<TypeMember("\"agent.run\""), GoalMember("\"g\"")>>)
WorkflowText(version, idMembers, steps) ==
  ObjectText(<<MemberText("\"version\"", <<version>>)>> \o idMembers \o
             <<MemberText("\"steps\"", steps)>>)
IdMember(id) == MemberText("\"id\"", <<id>>)

\* the workflow of the parser's first test
DocValid == WorkflowText("1", <<IdMember("\"w1\"")>>, ArrayText(<<GoodStep>>))
\* the same with blanks inside, a concurrency of 0 and a dependsOn list
DocSpaced ==
  ObjectText(<<MemberText("\"version\"", <<" ", "1">>), IdMember("\" \"") \o <<" ">>,
               IdMember("\"w1\""), MemberText("\"concurrency\"", <<"0">>),
               MemberText("\"steps\"", ArrayText(<<GoodStep,
                 StepText(<<TypeMember("\"agent.run\""), GoalMember("\"g\""),
                            MemberText("\"dependsOn\"",
                                       ArrayText(<<<<"\"a\"">>, <<"1">>>>))>>)>>))>>)
DocVersion2 == WorkflowText("2", <<IdMember("\"w1\"")>>, ArrayText(<<GoodStep>>))
DocNoId == WorkflowText("1", <<>>, ArrayText(<<GoodStep>>))
DocBlankId == WorkflowText("1", <<IdMember("\" \"")>>, ArrayText(<<GoodStep>>))
DocStepsString == WorkflowText("1", <<IdMember("\"w1\"")>>, <<"\"g\"">>)
DocStepNumber == WorkflowText("1", <<IdMember("\"w1\"")>>, ArrayText(<<GoodStep, <<"1">>>>))
DocShell ==
  WorkflowText("1", <<IdMember("\"w1\"")>>,
               ArrayText(<<StepText(<<TypeMember("\"shell\""), GoalMember("\"g\"")>>)>>))
DocNoGoal ==
  WorkflowText("1", <<IdMember("\"w1\"")>>,
               ArrayText(<<GoodStep, StepText(<<TypeMember("\"agent.run\"")>>)>>))
DocBlankGoal ==
  WorkflowText("1", <<IdMember("\"w1\"")>>,
               ArrayText(<<StepText(<<TypeMember("\"agent.run\""), GoalMember("\" \"")>>)>>))
\* texts that hold no JSON object
DocProse == <<"x", " ", "x">>
DocNumber == <<"2">>
DocNull == <<"null">>
DocEmptyObject == <<"{", "}">>

Docs == {DocValid, DocSpaced, DocVersion2, DocNoId, DocBlankId, DocStepsString,
         DocStepNumber, DocShell, DocNoGoal, DocBlankGoal, DocProse, DocNumber,
         DocNull, DocEmptyObject}

\* the prose before and after a text holds up to MaxProse tokens each
MaxProse == 1

\* the prose around a text: up to n tokens, braces and brackets included
ProseTokens == {"x", " ", "{", "}", "[", "]"}
ProseTexts(n) == UNION {[1 .. k -> ProseTokens] : k \in 0 .. n}

ParserInit ==
  /\ pDoc \in Docs
  /\ pPrefix \in ProseTexts(MaxProse)
  /\ pSuffix \in ProseTexts(MaxProse)
  /\ pBare = Null
  /\ pWrapped = Null
  /\ RunIdle
  /\ ResolverIdle
  /\ CliIdle
  /\ CapIdle
  /\ ViewerIdle
  /\ LoopIdle

\* parseWorkflow(text) on the text as it is
ParseBare ==
  /\ pBare = Null
  /\ pBare' = Some(ParseWorkflowText(pDoc))
  /\ UNCHANGED <<pDoc, pPrefix, pSuffix, pWrapped>>
  /\ UNCHANGED notParser

\* parseWorkflow(text) on the text inside its prose
ParseWrapped ==
  /\ pWrapped = Null
  /\ pWrapped' = Some(ParseWorkflowText(pPrefix \o pDoc \o pSuffix))
  /\ UNCHANGED <<pDoc, pPrefix, pSuffix, pBare>>
  /\ UNCHANGED notParser

ParserNext == ParseBare \/ ParseWrapped

ParserSpec == ParserInit /\ [][ParserNext]_<<vars, notRun>>

\* ------------------------------------------------------------------ C28

\* C28: when parseWorkflow returns a workflow for a text, it returns the
\* same workflow for that text inside any surrounding prose.
C28_ProseWrappedParsesAlike ==
  (IsSome(pBare) /\ IsSome(pWrapped) /\ Get(pBare).ok) => pWrapped = pBare

\* ------------------------------------------------------------------ C29

\* the JSON value the text holds, and its steps
HeldValue == JsonParse(pDoc)
HoldsNoObject == ~IsSome(HeldValue) \/ Get(HeldValue).tag # "obj"
HeldSteps ==
  IF ~HoldsNoObject /\ IsTagged(Field(Get(HeldValue), "steps"), "arr")
  THEN Get(Field(Get(HeldValue), "steps")).items
  ELSE <<>>
VersionIsNot1 ==
  ~HoldsNoObject /\ Field(Get(HeldValue), "version") # Some([tag |-> "num", n |-> 1])
IdIsBlank == ~HoldsNoObject /\ Trim(StringOf(Field(Get(HeldValue), "id"))) = <<>>
StepsIsNoArray == ~HoldsNoObject /\ ~IsTagged(Field(Get(HeldValue), "steps"), "arr")
SomeStepIsNoObject == \E i \in DOMAIN HeldSteps : HeldSteps[i].tag # "obj"
SomeTypeIsWrong ==
  \E i \in DOMAIN HeldSteps :
    /\ HeldSteps[i].tag = "obj"
    /\ Field(HeldSteps[i], "type") # Some([tag |-> "str", s |-> "agent.run"])
SomeGoalIsBlank ==
  \E i \in DOMAIN HeldSteps :
    /\ HeldSteps[i].tag = "obj"
    /\ Trim(StringOf(Field(HeldSteps[i], "goal"))) = <<>>

\* what the parse of the text has to be: a failure exactly in the listed
\* cases, with the two messages
FollowsParseRules(r) ==
  /\ ~r.ok <=> \/ HoldsNoObject \/ VersionIsNot1 \/ IdIsBlank \/ StepsIsNoArray
               \/ SomeStepIsNoObject \/ SomeTypeIsWrong \/ SomeGoalIsBlank
  /\ ~r.ok => r.workflow = Null /\ r.error # ""
  /\ VersionIsNot1 => r.error = "Workflow.version must be 1"
  /\ (/\ SomeGoalIsBlank
      /\ ~(HoldsNoObject \/ VersionIsNot1 \/ IdIsBlank \/ StepsIsNoArray
           \/ SomeStepIsNoObject \/ SomeTypeIsWrong)) => r.error = "Step is missing goal"

\* C29: parseWorkflow fails, returning no workflow, exactly when the text
\* holds no JSON object, version is not 1, id is missing or blank, steps is
\* no array, a step is no object, a step's type is not agent.run or a step's
\* goal is missing or blank; a wrong version and a missing goal are reported
\* by their messages. The text is taken as it is and inside prose.
C29_FailsExactlyWhenInvalid ==
  /\ IsSome(pBare) => FollowsParseRules(Get(pBare))
  /\ IsSome(pWrapped) => FollowsParseRules(Get(pWrapped))

\* ------------------------------------------------ the run viewer's files

\* A path is the sequence of its segments below <baseDir>/runs/autopilot,
\* which is <<>>. The file system of the viewer's test, with more links:
\* what is at each path, and where a symbolic link points.
File == [kind |-> "file", target |-> <<>>]
Dir == [kind |-> "dir", target |-> <<>>]
Link(target) == [kind |-> "link", target |-> target]
Files ==
  <<"secret">> :> File @@
  <<"run1">> :> Dir @@
  <<"run1", "a">> :> File @@
  <<"run1", "..x">> :> File @@
  <<"run1", "d">> :> Dir @@
  <<"run1", "d", "f">> :> File @@
  <<"run1", "leak">> :> Link(<<"secret">>) @@
  <<"run1", "in">> :> Link(<<"run1", "a">>) @@
  <<"run1", "out">> :> Link(<<>>) @@
  <<"run1", "dangling">> :> Link(<<"run1", "missing">>) @@
  <<"run1", "loop">> :> Link(<<"run1", "loop">>) @@
  <<"runL">> :> Link(<<"run1">>)

\* how many symbolic links realpath follows before it gives up
MaxLinks == 3

\* path.join(baseDir, "runs", "autopilot", runId)
RunDirOf(runId) == <<runId>>

\* realpath: every symbolic link on the way replaced by its target, Null
\* where it throws (a missing segment, a file used as a directory, a loop)
RECURSIVE RealPathFrom(_, _, _)
RealPathFrom(real, rest, hops) ==
  IF rest = <<>> THEN Some(real)
  ELSE LET next == Append(real, Head(rest)) IN
    IF next \notin DOMAIN Files THEN Null
    ELSE IF Files[next].kind = "link"
    THEN IF hops = 0 THEN Null
         ELSE RealPathFrom(<<>>, Files[next].target \o Tail(rest), hops - 1)
    ELSE IF Files[next].kind = "file" /\ Tail(rest) # <<>> THEN Null
    ELSE RealPathFrom(next, Tail(rest), hops)
RealPath(path) == RealPathFrom(<<>>, path, MaxLinks)

\* path.resolve(base, relative): "." dropped, ".." removing the segment before
RECURSIVE Resolve(_, _)
Resolve(base, segments) ==
  IF segments = <<>> THEN base
  ELSE Resolve(IF Head(segments) = "." THEN base
               ELSE IF Head(segments) = ".."
               THEN SubSeq(base, 1, Max(0, Len(base) - 1))
               ELSE Append(base, Head(segments)),
               Tail(segments))

\* path.relative(root, target): one ".." for each segment of root after the
\* common prefix, then the rest of target
Relative(root, target) ==
  LET same == {k \in 0 .. Min(Len(root), Len(target)) :
                 SubSeq(root, 1, k) = SubSeq(target, 1, k)}
      common == CHOOSE k \in same : \A j \in same : j <= k
  IN  [i \in 1 .. Len(root) - common |-> ".."] \o
      SubSeq(target, common + 1, Len(target))

\* relative.startsWith(".."): the names that begin with two dots
DotDotNames == {"..", "..x"}

IsWithin(root, target) ==
  LET relative == Relative(root, target) IN
    /\ relative # <<>>
    /\ relative[1] \notin DotDotNames

\* ---- the requests

RunIds == {"run1", "runL", "ghost"}
SegmentNames == {"a", "d", "f", "..x", "leak", "in", "out", "dangling", "loop",
                 "secret", "run1", "missing", "..", "."}
\* the path parameter holds up to MaxPath segments
MaxPath == 2
RelPaths(n) ==
  [absolute : BOOLEAN, segments : UNION {[1 .. k -> SegmentNames] : k \in 0 .. n}]

ViewerInit ==
  /\ vRunId \in RunIds
  /\ vRelPath \in RelPaths(MaxPath)
  /\ vPc = "route"
  /\ vRunDir = Null
  /\ vResolved = Null
  /\ vRealFile = Null
  /\ vStatus = 0
  /\ vStreamed = Null
  /\ RunIdle
  /\ ResolverIdle
  /\ CliIdle
  /\ CapIdle
  /\ ParserIdle
  /\ LoopIdle

\* res.writeHead(status) and res.end
Answers(status) ==
  /\ vStatus' = status
  /\ vPc' = "done"

\* routeRequest and the head of handleRunFile: an empty path parameter and
\* an absolute path are refused, else realpath(runDir) is awaited
RouteFile ==
  /\ vPc = "route"
  /\ IF vRelPath.absolute \/ vRelPath.segments = <<>>
     THEN Answers(400)
     ELSE vPc' = "runDir" /\ vStatus' = vStatus
  /\ UNCHANGED <<vRunId, vRelPath, vRunDir, vResolved, vRealFile, vStreamed>>
  /\ UNCHANGED notViewer

\* realpath(runDir) settles: 404 if it throws, else resolve and the first
\* isWithin, then realpath(resolved) is awaited
RunDirSettles ==
  /\ vPc = "runDir"
  /\ LET normalizedRunDir == RealPath(RunDirOf(vRunId)) IN
       IF ~IsSome(normalizedRunDir)
       THEN Answers(404) /\ UNCHANGED <<vRunDir, vResolved>>
       ELSE LET resolved == Resolve(Get(normalizedRunDir), vRelPath.segments) IN
              /\ vRunDir' = normalizedRunDir
              /\ IF ~IsWithin(Get(normalizedRunDir), resolved)
                 THEN Answers(400) /\ UNCHANGED vResolved
                 ELSE /\ vResolved' = Some(resolved)
                      /\ vPc' = "file"
                      /\ vStatus' = vStatus
  /\ UNCHANGED <<vRunId, vRelPath, vRealFile, vStreamed>>
  /\ UNCHANGED notViewer

\* realpath(resolved) settles: 404 if it throws, 400 if the real path is not
\* within the run directory, else stat is awaited
FileSettles ==
  /\ vPc = "file"
  /\ LET realFilePath == RealPath(Get(vResolved)) IN
       IF ~IsSome(realFilePath) THEN Answers(404) /\ UNCHANGED vRealFile
       ELSE IF ~IsWithin(Get(vRunDir), Get(realFilePath))
       THEN Answers(400) /\ UNCHANGED vRealFile
       ELSE /\ vRealFile' = realFilePath
            /\ vPc' = "stat"
            /\ vStatus' = vStatus
  /\ UNCHANGED <<vRunId, vRelPath, vRunDir, vResolved, vStreamed>>
  /\ UNCHANGED notViewer

\* stat(realFilePath) settles: 404 unless it is a regular file, else the file
\* is piped into the response with status 200
StatSettles ==
  /\ vPc = "stat"
  /\ IF Get(vRealFile) \in DOMAIN Files /\ Files[Get(vRealFile)].kind = "file"
     THEN /\ vStreamed' = vRealFile
          /\ Answers(200)
     ELSE /\ Answers(404)
          /\ UNCHANGED vStreamed
  /\ UNCHANGED <<vRunId, vRelPath, vRunDir, vResolved, vRealFile>>
  /\ UNCHANGED notViewer

ViewerNext == RouteFile \/ RunDirSettles \/ FileSettles \/ StatSettles

ViewerSpec == ViewerInit /\ [][ViewerNext]_<<vars, notRun>>

\* ------------------------------------------------------------------ C30

\* the run's directory as the file system has it, and what lies below it
RunExists == IsSome(RealPath(RunDirOf(vRunId)))
RealRunDir == Get(RealPath(RunDirOf(vRunId)))
IsBelow(root, path) == Len(path) > Len(root) /\ SubSeq(path, 1, Len(root)) = root
\* where the path parameter leads, segment by segment, before links are followed
Requested == Resolve(RealRunDir, vRelPath.segments)
EscapesByDots == ~IsBelow(RealRunDir, Requested) /\ Requested # RealRunDir
LeadsOutside ==
  /\ IsBelow(RealRunDir, Requested)
  /\ IsSome(RealPath(Requested))
  /\ ~IsBelow(RealRunDir, Get(RealPath(Requested)))
  /\ Get(RealPath(Requested)) # RealRunDir
IsMissing == IsBelow(RealRunDir, Requested) /\ ~IsSome(RealPath(Requested))

\* C30: the file endpoint streams only with status 200, and only a regular
\* file whose real path lies below the run's real directory; for a run that
\* exists, an absolute path, a path that leaves the directory through ".."
\* and a path that a symbolic link leads outside are answered 400, a path to
\* nothing is answered 404; for a run that does not exist nothing is streamed.
C30_NoFileOutsideRunDir ==
  /\ vStatus = 200 <=> IsSome(vStreamed)
  /\ IsSome(vStreamed) =>
       /\ RunExists
       /\ IsBelow(RealRunDir, Get(vStreamed))
       /\ Files[Get(vStreamed)].kind = "file"
       /\ RealPath(Get(vStreamed)) = vStreamed
  /\ (vPc = "done" /\ RunExists) =>
       /\ vRelPath.absolute => vStatus = 400
       /\ (~vRelPath.absolute /\ vRelPath.segments # <<>> /\ EscapesByDots) => vStatus = 400
       /\ (~vRelPath.absolute /\ LeadsOutside) => vStatus = 400
       /\ (~vRelPath.absolute /\ IsMissing) => vStatus = 404
  /\ (vPc = "done" /\ ~RunExists) => vStatus \in {400, 404}

\* ------------------------------------------------------------------ C31


\* the adapter calls this iteration made for the step with the id
StepCallsOf(id) ==
  {k \in CallsOfKind("step") : calls[k].iteration = iteration /\ Get(calls[k].step).id = id}

\* C31: when executeWorkflow has returned for a workflow with unique step
\* ids, the adapter was called exactly once for every step and for nothing
\* else, and the returned list holds one StepResult per step, in step order,
\* which is the result of that step's own call (the status and session of
\* the exec entry recorded for the call).
C31_OneResultPerStep ==
  (pc = "check" /\ UniqueStepIds(Get(workflow))) =>
    LET steps == Get(workflow).steps
        results == ExecuteWorkflowReturn
    IN  /\ Len(results) = Len(steps)
        /\ Cardinality({k \in CallsOfKind("step") : calls[k].iteration = iteration})
             = Len(steps)
        /\ \A i \in DOMAIN steps :
             /\ results[i].stepId = steps[i].id
             /\ Cardinality(StepCallsOf(steps[i].id)) = 1
             /\ \A k \in StepCallsOf(steps[i].id) :
                  /\ Get(calls[k].step) = steps[i]
                  /\ \E e \in DOMAIN manifest.execs :
                       /\ manifest.execs[e].execId = calls[k].execId
                       /\ manifest.execs[e].label = StepLabel(steps[i].id)
                       /\ manifest.execs[e].status = results[i].status
                       /\ manifest.execs[e].sessionId = results[i].sessionId

\* three steps with dependencies were executed, one of them failed
C31_Witness ==
  /\ pc = "check"
  /\ IsSome(workflow)
  /\ UniqueStepIds(Get(workflow))
  /\ Len(Get(workflow).steps) = 3
  /\ \E i, j \in DOMAIN ExecuteWorkflowReturn :
       /\ ExecuteWorkflowReturn[i].status = "failed"
       /\ ExecuteWorkflowReturn[j].status = "succeeded"

\* ------------------------------------------------- C32, C34, C39: graph edges

\* an iteration of run() has just ended: its completion check returned and the
\* manifest was written
IterationEnded ==
  /\ IsSome(workflow)
  /\ pending = {}
  /\ \/ pc = "loop" /\ iteration > 1
     \/ pc = "returned" /\ Get(result).status = "completed"

\* the number of the iteration that has just ended
EndedIteration == IF pc = "loop" THEN iteration - 1 ELSE iteration

\* the step calls of one iteration
StepCallsIn(it) == {k \in CallsOfKind("step") : calls[k].iteration = it}

\* the edges of one type in a manifest
EdgesOfType(m, type) == {e \in Range(m.graph.edges) : e.type = type}

\* the ids of the exec nodes of a manifest
ExecNodeIds(m) == {m.graph.nodes[i].id : i \in DOMAIN m.graph.nodes}

\* the dependsOn edges between the exec nodes of the steps executed so far:
\* from the dependency's exec node to the dependent's, within one iteration
DependsOnBetweenExecs ==
  {[type |-> "dependsOn", from |-> ExecNodeIdOf(calls[d].execId),
    to |-> ExecNodeIdOf(calls[s].execId)] :
     <<d, s>> \in {p \in CallsOfKind("step") \X CallsOfKind("step") :
                     /\ calls[p[1]].iteration = calls[p[2]].iteration
                     /\ Get(calls[p[1]].step).id \in Range(Get(calls[p[2]].step).dependsOn)}}

\* C32: after an iteration of the modular runner, the dependsOn edges of the
\* manifest graph are exactly the edges from the exec node of an executed
\* dependency to the exec node of the executed step that lists it
C32_DependsOnEdgesJoinExecNodes ==
  IterationEnded => EdgesOfType(manifest, "dependsOn") = DependsOnBetweenExecs

\* the completion-check call of one iteration
CheckCallsIn(it) == {k \in CallsOfKind("completion-check") : calls[k].iteration = it}

\* C34: when an iteration of the modular runner has executed a workflow the
\* reviewer supplied, the graph holds an invokes edge from the exec node of the
\* previous iteration's completion check to the exec node of every step the
\* iteration executed
C34_ReviewerInvokesOverrideSteps ==
  (IterationEnded /\ ~IsSome(workflowGenExecId)) =>
    \A c \in CheckCallsIn(EndedIteration - 1), k \in StepCallsIn(EndedIteration) :
      [type |-> "invokes", from |-> ExecNodeIdOf(calls[c].execId),
       to |-> ExecNodeIdOf(calls[k].execId)] \in EdgesOfType(manifest, "invokes")

\* C39: the manifest on disk never holds two edges with the same type, from
\* and to
C39_NoDuplicateEdge ==
  \A i, j \in DOMAIN manifestFile.graph.edges :
    manifestFile.graph.edges[i] = manifestFile.graph.edges[j] => i = j

\* ------------------------------------------- C37: invalid reviewer workflow

\* a reviewer answer that is not done and carries a nextWorkflow that
\* normalizeWorkflow rejects
HasInvalidNextWorkflow(text) ==
  /\ text.kind = "json"
  /\ text.value.done # TRUE
  /\ IsSome(text.value.nextWorkflow)
  /\ ~NormalizeWorkflow(Get(text.value.nextWorkflow)).ok

\* C37: in the modular runner a not-done answer with a structurally invalid
\* nextWorkflow ends the iteration as not done with the reviewer's reason and
\* no override, and the run goes on to the next iteration
C37_InvalidNextWorkflowIsNotDone ==
  [][\A text \in CheckTexts :
       (HasInvalidNextWorkflow(text) /\ CheckReturns(text)) =>
         /\ pc' = "loop"
         /\ iteration' = iteration + 1
         /\ nextWorkflowOverride' = Null
         /\ Len(answers') = Len(answers) + 1
         /\ answers'[Len(answers')].completion = NotDone(Get(text.value.reason), Null)
    ]_<<vars, notRun>>

\* ------------------------------------------------------------------ C38

\* two steps of the list share an id, no step is on a cycle and every
\* dependency names a step of the list
SharesAnIdOnly(steps) ==
  /\ ~UniqueStepIds(AsWorkflow(steps))
  /\ ~HasCycle(AsWorkflow(steps))
  /\ ~HasUnknownDependency(AsWorkflow(steps))

\* C38: for a step list in which two steps share an id, without a cycle and
\* without a dependency on an unknown id, resolveDependencyOrder raises no
\* error and returns waves that hold every step, the steps of a shared id in
\* the same wave.
C38_SharedIdResolves ==
  (rPc = "resolved" /\ SharesAnIdOnly(rSteps)) =>
    LET r == Get(rResolved) IN
    /\ r.kind = "waves"
    /\ \A i \in DOMAIN rSteps : PlacesOf(r.waves, rSteps[i]) # {}
    /\ \A i, j \in DOMAIN rSteps :
         rSteps[i].id = rSteps[j].id =>
           \A p \in PlacesOf(r.waves, rSteps[i]), q \in PlacesOf(r.waves, rSteps[j]) :
             p[1] = q[1]

\* ------------------------------------------------------------------ C35

\* the recorded edges put through recordGraphEdge with their keys in the
\* order given, from position i on
RECURSIVE RecordInOrder(_, _, _, _)
RecordInOrder(g, recorded, order, i) ==
  IF i > Len(recorded) THEN g
  ELSE RecordInOrder(RecordGraphEdge(g, recorded[order[i]].value,
                                     Some(recorded[order[i]].key)),
                     recorded, order, i + 1)

\* what the index stores, key and edge, after recording in the order given
StoredIn(recorded, order) ==
  Range(RecordInOrder(EmptyGraphIndex, recorded, order, 1).edges)

\* stored edges without their prompt
WithoutPrompt(stored) ==
  {[key |-> x.key, value |-> [x.value EXCEPT !.prompt = Null]] : x \in stored}

\* C35 as stated: the edges recorded so far, recorded in any other order,
\* leave the same edges stored, with the same field values.
C35_OrderIndependent ==
  \A order \in Permutations(DOMAIN graphIndex.calls) :
    StoredIn(graphIndex.calls, order) = Range(graphIndex.edges)

\* C35 amended: the edges recorded so far, recorded in any other order, are
\* stored under the same keys with the same type, from, to, callId, status
\* and source; the prompt of a stored edge is the prompt of the edge that was
\* recorded first under its key.
C35_OrderIndependentButPrompt ==
  /\ \A order \in Permutations(DOMAIN graphIndex.calls) :
       WithoutPrompt(StoredIn(graphIndex.calls, order)) =
         WithoutPrompt(Range(graphIndex.edges))
  /\ \A i \in DOMAIN graphIndex.edges :
       \E k \in DOMAIN graphIndex.calls :
         /\ graphIndex.calls[k] = graphIndex.edges[i]
         /\ \A j \in 1 .. (k - 1) : graphIndex.calls[j].key # graphIndex.edges[i].key

\* edges of the three sources have been recorded, two of them under one key
\* with different prompts
C35_Witness ==
  /\ {"workflow", "resume", "transcript"} \subseteq
       {graphIndex.calls[i].value.source : i \in DOMAIN graphIndex.calls}
  /\ \E i, j \in DOMAIN graphIndex.calls :
       /\ graphIndex.calls[i].key = graphIndex.calls[j].key
       /\ graphIndex.calls[i].value.prompt # graphIndex.calls[j].value.prompt

\* ------------------------------------------------------------------ C40

\* every entry of the execs list of a manifest has an exec node of its exec
\* id among the nodes of the manifest's graph
EveryExecHasItsNode(m) ==
  \A i \in DOMAIN m.execs :
    \E n \in DOMAIN m.graph.nodes :
      /\ m.graph.nodes[n].type = "exec"
      /\ m.graph.nodes[n].execId = m.execs[i].execId

\* C40: in the one-file runner every manifest that reaches the disk holds,
\* for each entry of its execs list, an exec node of the same exec id in
\* graph.nodes, however the concurrent executions interleave.
C40_SnapshotHasNodePerExec == EveryExecHasItsNode(capFile)

\* ------------------------------------------- the one-file runner's run()

\* the largest maxIterations the run() loop is given
MaxLoops == 2

\* two steps, the second needing the first
WfPair == RawWorkflow(<<"w", "3">>, Null,
                      <<RawStep(<<"a">>, <<>>), RawStep(<<"b">>, <<<<"a">>>>)>>)

\* the texts the generator and the reviewer may return to the run() loop
LoopGenTexts == {GarbageText, JsonText(WfOne), JsonText(WfPair), JsonText(WfMissingDep)}
LoopCheckTexts == CheckTexts

\* how a codexExec call may end: it returns, it throws a CodexExecError after
\* recording its entry, or a file operation before the spawn throws
CodexExecOutcomes == {"succeeded", "failed", "fs-error"}

\* parseWorkflowJson
ParseWorkflowJson(text) ==
  IF ~IsSome(SafeJsonParse(text)) THEN Err("Workflow generator returned invalid JSON.")
  ELSE NormalizeWorkflow(Get(SafeJsonParse(text)))

\* the one-file checkCompletion after its codexExec call: a nextWorkflow that
\* normalizeWorkflow rejects is dropped
LoopParseCompletion(text) ==
  LET parsed == SafeJsonParse(text) IN
  IF ~IsSome(parsed) THEN NotDone("Reviewer returned invalid JSON; stopping.", Null)
  ELSE LET obj == Get(parsed)
           reason == IF IsSome(obj.reason) THEN Get(obj.reason) ELSE "Not done."
       IN  IF obj.done = TRUE
           THEN Done(IF IsSome(obj.summary) THEN Get(obj.summary) ELSE "Done.")
           ELSE IF IsSome(obj.nextWorkflow) /\ NormalizeWorkflow(Get(obj.nextWorkflow)).ok
           THEN NotDone(reason, NormalizeWorkflow(Get(obj.nextWorkflow)).workflow)
           ELSE NotDone(reason, Null)

\* the thread a codexExec call reports in thread.started
ThreadOf(e) == <<"t", "-">> \o ExecIdOf(e)

\* writeManifest when no write is pending: the graph is synced and the
\* manifest serialized at once
LoopWriteManifest(m, g) == WriteManifestCall(m, g, <<>>).manifest

\* codexExec with exec index e on manifest m and graph index g. A call that
\* gets as far as the spawn pushes its entry, records its exec node, finds no
\* transcript for its thread and writes the manifest; then it returns, or
\* throws when the child failed.
CodexExec(e, outcome, m, g) ==
  IF outcome = "fs-error"
  THEN [manifest |-> m, graph |-> g, written |-> FALSE, returns |-> FALSE,
        execId |-> Str.unknown]
  ELSE LET entry == ManifestEntry(e, [threadId |-> ThreadOf(e), status |-> outcome])
           pushed == [m EXCEPT !.execs = Append(@, entry)]
           g1 == RecordExecGraphNode(g, entry)
           g2 == RecordWarning([g1 EXCEPT !.transcriptThreads = @ \cup {ThreadOf(e)}],
                               Str.notFound \o ThreadOf(e))
       IN  [manifest |-> LoopWriteManifest(pushed, g2), graph |-> g2, written |-> TRUE,
            returns |-> outcome = "succeeded", execId |-> ExecIdOf(e)]

\* the StepResult of the one-file executeWorkflow for a step's codexExec call
LoopStepResult(stepId, outcome, ran) ==
  [stepId |-> stepId, status |-> IF ran.returns THEN "succeeded" ELSE "failed",
   execId |-> ran.execId]

\* workflow.steps.map((step) => results.get(step.id) ?? ...)
LoopStepResults(w, results) ==
  [i \in DOMAIN w.steps |->
     IF w.steps[i].id \in DOMAIN results THEN results[w.steps[i].id]
     ELSE [stepId |-> w.steps[i].id, status |-> "failed", execId |-> Str.unknown]]

\* the steps executeWorkflow may start: remaining, not running, dependencies
\* completed
LoopReady(w, remaining, finished) ==
  SelectSeq(remaining, LAMBDA stepId : Range(GetDeps(w.steps, stepId)) \subseteq finished)

RECURSIVE Flatten(_)
Flatten(seqs) == IF seqs = <<>> THEN <<>> ELSE Head(seqs) \o Flatten(Tail(seqs))

\* the results whose exec id is known
KnownResults(results) == SelectSeq(results, LAMBDA r : r.execId # <<>> /\ r.execId # Str.unknown)

\* the edges recordWorkflowDependsOnEdges records, in loop order
WorkflowDependsOnEdges(w, results) ==
  LET known == KnownResults(results)
      lastOf(id) == CHOOSE i \in DOMAIN known :
                      /\ known[i].stepId = id
                      /\ \A j \in DOMAIN known : known[j].stepId = id => j <= i
      execByStep == [id \in {known[i].stepId : i \in DOMAIN known} |->
                       Str.exec \o known[lastOf(id)].execId]
  IN  Flatten([i \in DOMAIN w.steps |->
        IF w.steps[i].id \notin DOMAIN execByStep THEN <<>>
        ELSE LET deps == SelectSeq(w.steps[i].dependsOn,
                                   LAMBDA dep : dep \in DOMAIN execByStep)
             IN  [k \in DOMAIN deps |->
                    Edge(Str.dependsOn, execByStep[deps[k]], execByStep[w.steps[i].id],
                         Null, Null, Null, "workflow")]])

\* variant: recordInvokesEdges without the edges to the completion check
InvokesEdgesFromGenOnly(genExecId, stepResults, completionExecId) ==
  LET known == KnownResults(stepResults)
  IN  IF IsSome(genExecId)
      THEN [k \in DOMAIN known |->
              Edge(Str.invokes, Str.exec \o Get(genExecId),
                   Str.exec \o known[k].execId, Null, Null, Null, "workflow")]
      ELSE <<>>

\* the edges recordInvokesEdges records, in loop order
InvokesEdges(genExecId, stepResults, completionExecId) ==
  LET known == KnownResults(stepResults)
  IN  (IF IsSome(genExecId)
       THEN [k \in DOMAIN known |->
               Edge(Str.invokes, Str.exec \o Get(genExecId),
                    Str.exec \o known[k].execId, Null, Null, Null, "workflow")]
       ELSE <<>>)
      \o
      (IF IsSome(completionExecId)
       THEN [k \in DOMAIN known |->
               Edge(Str.invokes, Str.exec \o known[k].execId,
                    Str.exec \o Get(completionExecId), Null, Null, Null, "workflow")]
       ELSE <<>>)

\* the edge recordCompletionToWorkflowEdge records
CompletionToWorkflowEdge(completionExecId, genExecId) ==
  Edge(Str.invokes, Str.exec \o completionExecId, Str.exec \o genExecId,
       Null, Null, Null, "workflow")

LoopInit ==
  /\ RunIdle
  /\ ResolverIdle
  /\ CliIdle
  /\ CapIdle
  /\ ParserIdle
  /\ ViewerIdle
  /\ loopMax \in 0 .. MaxLoops
  /\ loopPc = "loop"
  /\ loopIteration = 1
  /\ loopOverride = Null
  /\ loopPending = Null
  /\ loopGen = Null
  /\ loopWorkflow = Null
  /\ loopNextExec = 1
  /\ loopRemaining = <<>>
  /\ loopCompleted = {}
  /\ loopResults = EmptyMap
  /\ loopManifest = LoopInitialManifest
  /\ loopGraph = EmptyGraphIndex
  /\ loopFile = LoopInitialManifest
  /\ loopLog = <<>>

\* executeWorkflow is entered with workflow w
LoopEnterExecuteWorkflow(w) ==
  /\ loopRemaining' = RemainingOf(w.steps)
  /\ loopCompleted' = {}
  /\ loopResults' = EmptyMap
  /\ loopPc' = "steps"

\* the loop test fails: finishedAt is set and the manifest written
LoopExhausted ==
  /\ loopPc = "loop"
  /\ loopIteration > loopMax
  /\ loopManifest' = LoopWriteManifest([loopManifest EXCEPT !.finishedAt = Some("now")],
                                       loopGraph)
  /\ loopFile' = loopManifest'
  /\ loopPc' = "returned"
  /\ UNCHANGED <<loopMax, loopIteration, loopOverride, loopPending, loopGen, loopWorkflow,
                 loopNextExec, loopRemaining, loopCompleted, loopResults, loopGraph,
                 loopLog, notLoop>>

\* an iteration that runs the workflow the reviewer supplied
LoopUseOverride ==
  /\ loopPc = "loop"
  /\ loopIteration <= loopMax
  /\ IsSome(loopOverride)
  /\ loopWorkflow' = loopOverride
  /\ loopGen' = loopPending
  /\ loopPending' = Null
  /\ loopOverride' = Null
  /\ LoopEnterExecuteWorkflow(Get(loopOverride))
  /\ UNCHANGED <<loopMax, loopIteration, loopNextExec, loopManifest, loopGraph, loopFile,
                 loopLog, notLoop>>

\* an iteration that calls generateWorkflow: the codexExec call, the parse of
\* its output and the edge from the pending completion check
LoopGenerate(outcome, text) ==
  /\ loopPc = "loop"
  /\ loopIteration <= loopMax
  /\ ~IsSome(loopOverride)
  /\ loopNextExec' = loopNextExec + 1
  /\ LET ran == CodexExec(loopNextExec, outcome, loopManifest, loopGraph)
         parsed == ParseWorkflowJson(text)
     IN  IF ~ran.returns \/ ~parsed.ok
         THEN /\ loopManifest' = ran.manifest
              /\ loopGraph' = ran.graph
              /\ loopFile' = IF ran.written THEN ran.manifest ELSE loopFile
              /\ loopPc' = "thrown"
              /\ UNCHANGED <<loopOverride, loopGen, loopWorkflow, loopRemaining,
                             loopCompleted, loopResults>>
         ELSE LET g == IF IsSome(loopPending)
                       THEN RecordGraphEdge(ran.graph,
                              CompletionToWorkflowEdge(Get(loopPending), ran.execId), Null)
                       ELSE ran.graph
              IN  /\ loopGraph' = g
                  /\ loopManifest' = IF IsSome(loopPending)
                                     THEN LoopWriteManifest(ran.manifest, g)
                                     ELSE ran.manifest
                  /\ loopFile' = loopManifest'
                  /\ loopWorkflow' = parsed.workflow
                  /\ loopGen' = Some(ran.execId)
                  /\ loopOverride' = Null
                  /\ LoopEnterExecuteWorkflow(Get(parsed.workflow))
  /\ UNCHANGED <<loopMax, loopIteration, loopPending, loopLog, notLoop>>

\* executeWorkflow finds nothing ready while steps remain
LoopStuck ==
  /\ loopPc = "steps"
  /\ loopRemaining # <<>>
  /\ LoopReady(Get(loopWorkflow), loopRemaining, loopCompleted) = <<>>
  /\ loopPc' = "thrown"
  /\ UNCHANGED <<loopMax, loopIteration, loopOverride, loopPending, loopGen, loopWorkflow,
                 loopNextExec, loopRemaining, loopCompleted, loopResults, loopManifest,
                 loopGraph, loopFile, loopLog, notLoop>>

\* executeWorkflow under concurrency 1: the wave is the first ready step, and
\* its codexExec call ends
LoopRunStep(outcome) ==
  /\ loopPc = "steps"
  /\ LoopReady(Get(loopWorkflow), loopRemaining, loopCompleted) # <<>>
  /\ LET stepId == LoopReady(Get(loopWorkflow), loopRemaining, loopCompleted)[1]
         ran == CodexExec(loopNextExec, outcome, loopManifest, loopGraph)
     IN  /\ loopManifest' = ran.manifest
         /\ loopGraph' = ran.graph
         /\ loopFile' = IF ran.written THEN ran.manifest ELSE loopFile
         /\ loopResults' = MapSet(loopResults, stepId, LoopStepResult(stepId, outcome, ran))
         /\ loopCompleted' = loopCompleted \cup {stepId}
         /\ loopRemaining' = SelectSeq(loopRemaining, LAMBDA id : id # stepId)
  /\ loopNextExec' = loopNextExec + 1
  /\ UNCHANGED <<loopMax, loopPc, loopIteration, loopOverride, loopPending, loopGen,
                 loopWorkflow, loopLog, notLoop>>

\* executeWorkflow has returned: the dependsOn edges, checkCompletion, the
\* invokes edges, the manifest write and the rest of the iteration
LoopCheck(outcome, text) ==
  /\ loopPc = "steps"
  /\ loopRemaining = <<>>
  /\ loopNextExec' = loopNextExec + 1
  /\ LET w == Get(loopWorkflow)
         stepResults == LoopStepResults(w, loopResults)
         g1 == RecordAll(loopGraph, WorkflowDependsOnEdges(w, stepResults))
         ran == CodexExec(loopNextExec, outcome, loopManifest, g1)
         completion == LoopParseCompletion(text)
         g2 == RecordAll(ran.graph, InvokesEdges(loopGen, stepResults, Some(ran.execId)))
         written == LoopWriteManifest(ran.manifest, g2)
     IN  IF ~ran.returns
         THEN /\ loopManifest' = ran.manifest
              /\ loopGraph' = ran.graph
              /\ loopFile' = IF ran.written THEN ran.manifest ELSE loopFile
              /\ loopPc' = "thrown"
              /\ UNCHANGED <<loopIteration, loopOverride, loopPending, loopLog>>
         ELSE /\ loopGraph' = g2
              /\ loopLog' = Append(loopLog, [iteration |-> loopIteration, gen |-> loopGen,
                                             steps |-> stepResults, check |-> ran.execId,
                                             completion |-> completion])
              /\ IF completion.done
                 THEN /\ loopManifest' =
                           LoopWriteManifest([written EXCEPT !.finishedAt = Some("now")], g2)
                      /\ loopPc' = "returned"
                      /\ UNCHANGED <<loopIteration, loopOverride, loopPending>>
                 ELSE /\ loopManifest' = written
                      /\ loopOverride' = completion.nextWorkflow
                      /\ loopPending' = Some(ran.execId)
                      /\ loopIteration' = loopIteration + 1
                      /\ loopPc' = "loop"
              /\ loopFile' = loopManifest'
  /\ UNCHANGED <<loopMax, loopGen, loopWorkflow, loopRemaining, loopCompleted, loopResults,
                 notLoop>>

LoopNext ==
  \/ LoopExhausted
  \/ LoopUseOverride
  \/ \E outcome \in CodexExecOutcomes, text \in LoopGenTexts : LoopGenerate(outcome, text)
  \/ LoopStuck
  \/ \E outcome \in CodexExecOutcomes : LoopRunStep(outcome)
  \/ \E outcome \in CodexExecOutcomes, text \in LoopCheckTexts : LoopCheck(outcome, text)

LoopSpec == LoopInit /\ [][LoopNext]_<<vars, notRun>>

\* ------------------------------------------------------------------ C33

\* the invokes edge of the workflow path between two execs
InvokesEdge(fromExecId, toExecId) ==
  Edge(Str.invokes, Str.exec \o fromExecId, Str.exec \o toExecId, Null, Null, Null,
       "workflow")

\* C33: in the one-file runner, once an iteration's completion check has
\* returned, the graph of the manifest on disk holds an invokes edge from the
\* iteration's generating exec (the workflow generation, or the previous
\* completion check when the reviewer supplied the workflow) to the exec of
\* every step whose exec id is known and from each such exec to the
\* completion check, all with source workflow; and once a workflow has been
\* generated after a not-done check, an invokes edge from that check's exec
\* to the generation's exec.
C33_InvokesEdgesPerIteration ==
  LET edges == Range(loopFile.graph.edges) IN
  /\ \A k \in DOMAIN loopLog :
       LET known == KnownResults(loopLog[k].steps) IN
       /\ IsSome(loopLog[k].gen)
       /\ \A i \in DOMAIN known :
            /\ InvokesEdge(Get(loopLog[k].gen), known[i].execId) \in edges
            /\ InvokesEdge(known[i].execId, loopLog[k].check) \in edges
       /\ k > 1 =>
            IF IsSome(loopLog[k - 1].completion.nextWorkflow)
            THEN loopLog[k].gen = Some(loopLog[k - 1].check)
            ELSE InvokesEdge(loopLog[k - 1].check, Get(loopLog[k].gen)) \in edges
  /\ (loopPc = "steps" /\ loopLog # <<>>
        /\ ~IsSome(loopLog[Len(loopLog)].completion.nextWorkflow)) =>
       InvokesEdge(loopLog[Len(loopLog)].check, Get(loopGen)) \in edges

\* two iterations have been checked, the second on a regenerated workflow of
\* two steps of which one has no known exec id
C33_Witness ==
  /\ Len(loopLog) = 2
  /\ ~IsSome(loopLog[1].completion.nextWorkflow)
  /\ Len(loopLog[2].steps) = 2
  /\ Len(KnownResults(loopLog[2].steps)) = 1
  /\ Len(KnownResults(loopLog[1].steps)) >= 1

\* ------------------------------------------------------------------ C36

\* C36: in the one-file runner the manifest on disk has finishedAt set once
\* run() has ended, by a return or by an exception (a failed generation or
\* completion-check exec, an unparsable or stuck workflow).
C36_FinishedAtOnEveryExit ==
  loopPc \in {"returned", "thrown"} => IsSome(loopFile.finishedAt)

====
